---------------------------- MODULE Spec2Model ----------------------------
(***************************************************************************)
(* State-machine model of the dx7-to-tonverk renderer.                     *)
(*                                                                         *)
(*   Spec       Dx7Synth: load_patch and render_note (src/src/synth.rs)    *)
(*   SpecCore   FmCore driven directly, two voices (src/src/fm/fm_core.rs) *)
(*   SpecDriver Patch::generate_samples, the render driver (src/src/lib.rs)*)
(*   SpecEnv    one operator envelope (src/src/fm/env.rs)                  *)
(*   SpecSysex  patches to bytes and back (src/src/sysex.rs, fm/patch.rs)  *)
(*   SpecKernel one call of a kernel of src/src/fm/fm_op_kernel.rs         *)
(*   SpecAlg    Algorithms::compile, the render loop of Voice, and calls   *)
(*              on one note and on the LFO (src/src/fm/algorithms.rs)      *)
(*                                                                         *)
(* Every value stays inside the signed 32-bit range of the source.  A      *)
(* 64-bit intermediate product of the source is evaluated limb-wise by     *)
(* MulShr; a wrapping 32-bit addition by WrapAdd.                          *)
(***************************************************************************)
EXTENDS Integers, Sequences, FiniteSets, TLC

----------------------------------------------------------------------------
(* Integer helpers                                                         *)

I32_MAX == 2147483647

I32_MIN == -2147483647 - 1

Min(a, b) == IF a < b THEN a ELSE b

Max(a, b) == IF a > b THEN a ELSE b

\* a << k on values that stay inside 32 bits.
Shl(a, k) == a * (2 ^ k)

\* a >> k, arithmetic shift (floor).
Shr(a, k) == a \div (2 ^ k)

\* i32::wrapping_add
WrapAdd(a, b) ==
  IF a > 0 /\ b > 0 /\ a > I32_MAX - b
    THEN ((a - I32_MAX) - 1) + ((b - I32_MAX) - 1)
    ELSE IF a < 0 /\ b < 0 /\ a < I32_MIN - b
           THEN ((a + I32_MAX) + 1) + ((b + I32_MAX) + 1)
           ELSE a + b

\* ((a as i64) * (b as i64)) >> (2 * h), computed with h-bit limbs so that no
\* partial product leaves 32 bits.
MulShr(a, b, h) ==
  LET L  == 2 ^ h
      ah == a \div L
      al == a % L
      bh == b \div L
      bl == b % L
  IN  ah * bh + ((ah * bl + al * bh + ((al * bl) \div L)) \div L)

\* (x * 2^24) / d rounded down, by long division (one bit per step).
RECURSIVE ShlDiv(_, _, _, _)
ShlDiv(q, r, d, bits) ==
  IF bits = 0 THEN q
  ELSE LET r2 == 2 * r
       IN  IF r2 >= d THEN ShlDiv(2 * q + 1, r2 - d, d, bits - 1)
                      ELSE ShlDiv(2 * q, r2, d, bits - 1)

----------------------------------------------------------------------------
(* Constants of the source                                                 *)

\* Log base 2 of the block size.
LG_N == 6

\* Block size of the integer engine.
N == 64

JUMPTARGET == 1716

LEVEL_LUT ==
  << 0, 5, 9, 13, 17, 20, 23, 25, 27, 29, 31, 33, 35, 37, 39, 41, 42, 43, 45, 46 >>

STATICS ==
  << 1764000, 1764000, 1411200, 1411200, 1190700, 1014300, 992250,
     882000, 705600, 705600, 584325, 507150, 502740, 441000, 418950,
     352800, 308700, 286650, 253575, 220500, 220500, 176400, 145530,
     145530, 125685, 110250, 110250, 88200, 88200, 74970, 61740,
     61740, 55125, 48510, 44100, 37485, 31311, 30870, 27562, 27562,
     22050, 18522, 17640, 15435, 14112, 13230, 11025, 9261, 9261, 7717,
     6615, 6615, 5512, 5512, 4410, 3969, 3969, 3439, 2866, 2690, 2249,
     1984, 1896, 1808, 1411, 1367, 1234, 1146, 926, 837, 837, 705,
     573, 573, 529, 441, 441 >>

----------------------------------------------------------------------------
(* Env: the operator envelope (env.rs).  Sequences are 1-based: stage ix   *)
(* of the source reads rates[ix + 1] and levels[ix + 1].                   *)

\* Env::init_sr: ((44100.0 / sample_rate) * 2^24) as u32
SrMultiplier(sample_rate) ==
  (44100 \div sample_rate) * 16777216
    + ShlDiv(0, 44100 % sample_rate, sample_rate, 24)

\* Env::new
EnvNew ==
  [ rates |-> <<0, 0, 0, 0>>, levels |-> <<0, 0, 0, 0>>, outlevel |-> 0,
    rate_scaling |-> 0, level |-> 0, targetlevel |-> 0, rising |-> FALSE,
    ix |-> 0, inc |-> 0, staticcount |-> 0, down |-> TRUE ]

\* Env::scale_outlevel
ScaleOutlevel(outlevel) ==
  IF outlevel >= 20 THEN 28 + outlevel ELSE LEVEL_LUT[outlevel + 1]

\* The target of stage ix: ((scale_outlevel(level) >> 1) << 6) + outlevel - 4256,
\* floored at 16, in Q16 of the Q24 level.
EnvTarget(e, ix) ==
  LET newlevel    == e.levels[ix + 1]
      actuallevel == Shl(Shr(ScaleOutlevel(newlevel), 1), 6) + e.outlevel - 4256
  IN  Shl(IF actuallevel < 16 THEN 16 ELSE actuallevel, 16)

\* The static (hold) count of a plateau stage.
EnvStaticCount(e, ix, mult) ==
  LET newlevel   == e.levels[ix + 1]
      staticrate == Min(e.rates[ix + 1] + e.rate_scaling, 99)
      base       == IF staticrate < 77 THEN STATICS[staticrate + 1]
                                       ELSE 20 * (99 - staticrate)
      scaled     == IF staticrate < 77 /\ ix = 0 /\ newlevel = 0
                      THEN base \div 20 ELSE base
  IN  MulShr(scaled, mult, 12)

\* Env::advance
EnvAdvance(e, newix, mult) ==
  IF newix < 4
    THEN LET newlevel == e.levels[newix + 1]
             target   == EnvTarget(e, newix)
             qrate    == Min(Shr(e.rates[newix + 1] * 41, 6) + e.rate_scaling, 63)
             static   == target = e.level \/ (newix = 0 /\ newlevel = 0)
             inc0     == Shl(4 + (qrate % 4), 2 + LG_N + Shr(qrate, 2))
         IN  [ e EXCEPT !.ix = newix,
                        !.targetlevel = target,
                        !.rising = (target > e.level),
                        !.staticcount = IF static THEN EnvStaticCount(e, newix, mult)
                                                  ELSE 0,
                        !.inc = MulShr(inc0, mult, 12) ]
    ELSE [ e EXCEPT !.ix = newix ]

\* Env::init
EnvInit(e, rates, levels, outlevel, rate_scaling, mult) ==
  EnvAdvance([ e EXCEPT !.rates = rates, !.levels = levels,
                        !.outlevel = outlevel, !.rate_scaling = rate_scaling,
                        !.level = 0, !.down = TRUE ], 0, mult)

\* Env::get_sample, first half: the static (hold) countdown.
EnvStaticStep(e, mult) ==
  IF e.staticcount > 0
    THEN LET c == e.staticcount - N
         IN  IF c <= 0 THEN EnvAdvance([ e EXCEPT !.staticcount = 0 ], e.ix + 1, mult)
                       ELSE [ e EXCEPT !.staticcount = c ]
    ELSE e

\* Mutant of EnvLevelStep: the level is clamped at the target but the stage
\* never advances.
EnvLevelStepNoAdvance(e, mult) ==
  IF e.ix < 3 \/ (e.ix < 4 /\ ~e.down)
    THEN IF e.staticcount > 0
           THEN e
           ELSE IF e.rising
                  THEN [ e EXCEPT !.level = Min(Max(e.level, Shl(JUMPTARGET, 16))
                                     + Shr(Shl(17, 24) - Max(e.level, Shl(JUMPTARGET, 16)), 24)
                                       * e.inc, e.targetlevel) ]
                  ELSE [ e EXCEPT !.level = Max(e.level - e.inc, e.targetlevel) ]
    ELSE e

\* Env::get_sample, second half: the move toward the stage target.
EnvLevelStep(e, mult) ==
  IF e.ix < 3 \/ (e.ix < 4 /\ ~e.down)
    THEN IF e.staticcount > 0
           THEN e
           ELSE IF e.rising
                  THEN LET l0 == IF e.level < Shl(JUMPTARGET, 16)
                                   THEN Shl(JUMPTARGET, 16) ELSE e.level
                           l1 == l0 + Shr(Shl(17, 24) - l0, 24) * e.inc
                       IN  IF l1 >= e.targetlevel
                             THEN EnvAdvance([ e EXCEPT !.level = e.targetlevel ],
                                             e.ix + 1, mult)
                             ELSE [ e EXCEPT !.level = l1 ]
                  ELSE LET l1 == e.level - e.inc
                       IN  IF l1 <= e.targetlevel
                             THEN EnvAdvance([ e EXCEPT !.level = e.targetlevel ],
                                             e.ix + 1, mult)
                             ELSE [ e EXCEPT !.level = l1 ]
    ELSE e

\* Env::get_sample: the envelope after the call; the sample returned is its level.
EnvGetSample(e, mult) == EnvLevelStep(EnvStaticStep(e, mult), mult)

\* Env::keydown that records the key state and leaves the stage where it is.
EnvKeydownNoAdvance(e, down, mult) ==
  IF e.down # down THEN [ e EXCEPT !.down = down ] ELSE e

\* Env::keydown
EnvKeydown(e, down, mult) ==
  IF e.down # down
    THEN EnvAdvance([ e EXCEPT !.down = down ], IF down THEN 0 ELSE 3, mult)
    ELSE e

\* Env::get_position
EnvPosition(e) == e.ix

----------------------------------------------------------------------------
(* Sin and Exp2 (sin.rs, exp2.rs)                                          *)

\* Sin::build_table: the 512 first entries of the value half of SINTAB, as the
\* recurrence of build_table leaves them; entry i + 512 is the negation of entry i.
SINTAB_Y0 ==
  <<   0, 102943, 51470, 216940, 23648, 149615, 164218, 98507,
     -60227, -25861, -42479, -133569, -178445, -122769, -137803, -166101,
     -159530, -344110, -491252, -472060, -580413, -385029, -289366, -95521,
     1719, -160173, -56532, -227531, -187589, -59782, -85905, -260460,
     -99663, -250633, -110855, -254653, -224907, -404783, -344900, -255528,
     -407377, -585753, -381593, -496720, -328953, -198532, -192560, -251695,
     -48073, -77850, 81837, 228864, 34662, 182414, 332859, 157572,
     208783, 80223, -80766, -134513, -265318, -307931, -502368, -601003,
     -630415, -447081, -563870, -453124, -511084, -611939, -786613, -936046,
     -821829, -884606, -947401, -987751, -987126, -997530, -1004028, -1148805,
     -974834, -863115, -658481, -463284, -565777, -461345, -456606, -412066,
     -367828, -284628, -454019, -642690, -688342, -595617, -791358, -629894,
     -683902, -616416, -816016, -925040, -803746, -818765, -716483, -856398,
     -841865, -966129, -901748, -1055146, -930467, -946522, -991227, -810722,
     -682890, -760119, -807749, -838459, -654901, -477904, -613023, -587228,
     -397132, -450406, -584527, -396376, -321635, -525358, -521263, -448654,
     -476256, -597557, -592336, -562899, -657259, -781093, -644815, -476018,
     -466650, -309884, -216514, -350478, -190290, -179658, -199054, -124908,
     -294313, -417173, -316227, -373110, -382463, -235722, -112645, -276173,
     -152426, -176655, -212613, -62919, 44234, 165147, 210787, 386563,
     224046, 176128, 8600, 151707, 167591, 1667, -101107, 85292,
     257275, 387441, 219959, 400457, 558351, 373169, 443170, 470065,
     342473, 214879, 274321, 474392, 296042, 489453, 518483, 515257,
     657933, 690584, 579818, 673000, 820569, 1009424, 1086902, 931335,
     889836, 1023121, 904617, 1009083, 1132201, 1022643, 1094169, 1102038,
     978558, 888086, 966094, 961377, 1091158, 1175683, 1365586, 1540760,
     1422150, 1513673, 1425018, 1441708, 1272797, 1177607, 1115421, 1136015,
     999722, 1034183, 921880, 867871, 737620, 551168, 432152, 583291,
     780850, 682119, 531026, 488542, 508089, 482940, 464841, 419668,
     313699, 290530, 283814, 273030, 286968, 374730, 376807, 398282,
     356588, 513698, 449558, 551169, 492003, 661988, 472480, 447478,
     294072, 422297, 556467, 540932, 339703, 334449, 196567, 152668,
     165790, 70899, -72132, -210616, -395233, -477274, -323911, -190541,
     -70533, -253513, -350723, -513660, -665194, -573178, -681742, -632323,
     -490817, -389245, -324625, -241960, -91360, -114968, -10114, 11548,
     -117922, -217604, -103819, -131996, -257319, -391546, -255442, -210800,
     -306588, -109193, -212588, -380299, -566341, -399765, -467942, -568034,
     -701994, -831741, -658103, -720455, -650697, -816295, -738348, -868151,
     -773769, -821362, -746677, -626933, -533105, -328347, -492280, -608314,
     -769153, -922261, -1121019, -1217669, -1383553, -1488005, -1554620, -1512808,
     -1686878, -1742039, -1639003, -1571984, -1739430, -1595272, -1438530, -1455827,
     -1455421, -1415552, -1374170, -1504416, -1564823, -1762954, -1946404, -1772912,
     -1727064, -1605353, -1514531, -1310032, -1351811, -1152668, -1231764, -1218338,
     -1383301, -1281962, -1152327, -1004048, -907492, -938910, -739796, -906191,
     -1061969, -939342, -1142954, -1150221, -953055, -1064479, -1095051, -1044519,
     -911389, -999146, -1162206, -1316212, -1484007, -1472216, -1544811, -1728497,
     -1804771, -1966407, -1948110, -1889591, -1728194, -1638642, -1725988, -1907049,
     -1904278, -1995684, -2116351, -2181829, -2095362, -2144585, -2265911, -2446160,
     -2377358, -2479733, -2556149, -2459855, -2280040, -2333099, -2421147, -2258127,
     -2214458, -2099924, -1899920, -2069581, -1975847, -1887855, -2002227, -2122236,
     -2169909, -2181460, -2115189, -2082464, -2255060, -2447367, -2562373, -2581965,
     -2560811, -2413182, -2338822, -2222844, -2220373, -2352056, -2177474, -2360918,
     -2482878, -2402437, -2319212, -2222085, -2146690, -2346586, -2332081, -2182995,
     -2158347, -2180594, -2143889, -2006738, -1960577, -2030700, -1978688, -1939834,
     -2070194, -2252404, -2300704, -2289067, -2397892, -2207886, -2061777, -1929529,
     -1734351, -1773460, -1805622, -1622694, -1755637, -1697949, -1622451, -1472196,
     -1617021, -1533826, -1357614, -1455517, -1518446, -1652141, -1464277, -1313168,
     -1285323, -1427735, -1235061, -1162825, -979955, -1040198, -841692, -667817,
     -596636, -593419, -593513, -720446, -657735, -808394, -861139, -687472,
     -870062, -1013496, -867289, -795691, -911750, -802054, -1002926, -926713,
     -787775, -747907, -761249, -811748, -938075, -1073367, -1119839, -1033974,
     -838999, -968144, -832812, -1014831, -840827, -943555, -913978, -976958,
     -1167944, -1113735, -1067188, -967831, -908405, -941781, -858161, -927661,
     -1014188, -1121040, -1028898, -930044, -1053225, -1081604, -1232011, -1293901 >>

\* floor(2^(k / 1024) * 2^24) for k = 0..1024: the mantissa of 2.0f64.powf.
EXP2_TAB ==
  <<   16777216, 16788576, 16799944, 16811320, 16822703, 16834094, 16845493, 16856900,
     16868314, 16879736, 16891166, 16902603, 16914049, 16925502, 16936963, 16948431,
     16959907, 16971391, 16982883, 16994383, 17005890, 17017406, 17028929, 17040459,
     17051998, 17063544, 17075099, 17086661, 17098231, 17109808, 17121394, 17132987,
     17144589, 17156198, 17167815, 17179440, 17191072, 17202713, 17214361, 17226018,
     17237682, 17249354, 17261034, 17272722, 17284418, 17296122, 17307834, 17319553,
     17331281, 17343017, 17354760, 17366512, 17378271, 17390038, 17401814, 17413597,
     17425388, 17437187, 17448995, 17460810, 17472633, 17484464, 17496304, 17508151,
     17520006, 17531870, 17543741, 17555620, 17567508, 17579403, 17591307, 17603219,
     17615138, 17627066, 17639002, 17650946, 17662898, 17674858, 17686826, 17698802,
     17710787, 17722779, 17734780, 17746789, 17758805, 17770831, 17782864, 17794905,
     17806954, 17819012, 17831078, 17843152, 17855234, 17867324, 17879423, 17891530,
     17903645, 17915768, 17927899, 17940038, 17952186, 17964342, 17976506, 17988679,
     18000860, 18013048, 18025246, 18037451, 18049665, 18061887, 18074117, 18086356,
     18098602, 18110858, 18123121, 18135393, 18147673, 18159961, 18172258, 18184563,
     18196876, 18209198, 18221528, 18233866, 18246213, 18258568, 18270931, 18283303,
     18295683, 18308072, 18320469, 18332874, 18345288, 18357710, 18370141, 18382580,
     18395027, 18407483, 18419947, 18432420, 18444901, 18457391, 18469889, 18482395,
     18494910, 18507434, 18519966, 18532506, 18545055, 18557612, 18570178, 18582753,
     18595336, 18607927, 18620527, 18633136, 18645753, 18658378, 18671013, 18683655,
     18696307, 18708966, 18721635, 18734312, 18746997, 18759692, 18772394, 18785106,
     18797826, 18810554, 18823291, 18836037, 18848792, 18861555, 18874327, 18887107,
     18899896, 18912694, 18925500, 18938315, 18951139, 18963971, 18976812, 18989662,
     19002521, 19015388, 19028264, 19041148, 19054042, 19066944, 19079855, 19092774,
     19105702, 19118639, 19131585, 19144540, 19157503, 19170475, 19183456, 19196446,
     19209444, 19222452, 19235468, 19248493, 19261527, 19274569, 19287621, 19300681,
     19313750, 19326828, 19339915, 19353010, 19366115, 19379228, 19392350, 19405482,
     19418622, 19431771, 19444928, 19458095, 19471271, 19484455, 19497649, 19510851,
     19524063, 19537283, 19550512, 19563751, 19576998, 19590254, 19603519, 19616793,
     19630077, 19643369, 19656670, 19669980, 19683299, 19696627, 19709964, 19723311,
     19736666, 19750030, 19763404, 19776786, 19790177, 19803578, 19816988, 19830406,
     19843834, 19857271, 19870717, 19884172, 19897636, 19911109, 19924592, 19938083,
     19951584, 19965094, 19978613, 19992141, 20005678, 20019225, 20032780, 20046345,
     20059919, 20073502, 20087095, 20100696, 20114307, 20127927, 20141556, 20155195,
     20168843, 20182500, 20196166, 20209841, 20223526, 20237220, 20250923, 20264636,
     20278357, 20292089, 20305829, 20319579, 20333338, 20347106, 20360884, 20374671,
     20388467, 20402273, 20416088, 20429912, 20443746, 20457589, 20471441, 20485303,
     20499174, 20513055, 20526945, 20540844, 20554753, 20568671, 20582599, 20596536,
     20610483, 20624439, 20638404, 20652379, 20666363, 20680357, 20694361, 20708373,
     20722396, 20736427, 20750469, 20764520, 20778580, 20792650, 20806729, 20820818,
     20834916, 20849024, 20863142, 20877269, 20891405, 20905552, 20919707, 20933873,
     20948048, 20962232, 20976427, 20990630, 21004844, 21019067, 21033299, 21047542,
     21061794, 21076055, 21090326, 21104607, 21118898, 21133198, 21147508, 21161828,
     21176157, 21190496, 21204845, 21219203, 21233571, 21247949, 21262337, 21276734,
     21291142, 21305558, 21319985, 21334421, 21348868, 21363324, 21377789, 21392265,
     21406750, 21421245, 21435750, 21450265, 21464790, 21479324, 21493869, 21508423,
     21522987, 21537561, 21552144, 21566738, 21581342, 21595955, 21610578, 21625211,
     21639855, 21654508, 21669170, 21683843, 21698526, 21713219, 21727922, 21742634,
     21757357, 21772089, 21786832, 21801584, 21816347, 21831120, 21845902, 21860695,
     21875497, 21890310, 21905132, 21919965, 21934808, 21949660, 21964523, 21979396,
     21994279, 22009172, 22024075, 22038988, 22053911, 22068845, 22083788, 22098742,
     22113706, 22128680, 22143664, 22158658, 22173662, 22188676, 22203701, 22218736,
     22233781, 22248836, 22263901, 22278977, 22294063, 22309159, 22324265, 22339381,
     22354508, 22369645, 22384792, 22399950, 22415117, 22430295, 22445484, 22460682,
     22475891, 22491110, 22506339, 22521579, 22536829, 22552090, 22567360, 22582641,
     22597933, 22613235, 22628547, 22643869, 22659202, 22674545, 22689899, 22705263,
     22720637, 22736022, 22751417, 22766823, 22782239, 22797666, 22813103, 22828550,
     22844008, 22859477, 22874955, 22890445, 22905945, 22921455, 22936976, 22952507,
     22968049, 22983601, 22999164, 23014738, 23030322, 23045916, 23061521, 23077137,
     23092763, 23108400, 23124047, 23139705, 23155374, 23171053, 23186743, 23202443,
     23218155, 23233876, 23249609, 23265352, 23281105, 23296870, 23312645, 23328430,
     23344227, 23360034, 23375852, 23391680, 23407519, 23423369, 23439230, 23455101,
     23470984, 23486877, 23502780, 23518695, 23534620, 23550556, 23566503, 23582460,
     23598429, 23614408, 23630398, 23646399, 23662411, 23678433, 23694467, 23710511,
     23726566, 23742632, 23758709, 23774797, 23790895, 23807005, 23823125, 23839257,
     23855399, 23871552, 23887716, 23903891, 23920077, 23936274, 23952482, 23968701,
     23984931, 24001172, 24017424, 24033687, 24049961, 24066246, 24082542, 24098849,
     24115167, 24131496, 24147836, 24164188, 24180550, 24196923, 24213308, 24229703,
     24246110, 24262528, 24278957, 24295397, 24311848, 24328310, 24344784, 24361268,
     24377764, 24394271, 24410789, 24427318, 24443859, 24460411, 24476973, 24493548,
     24510133, 24526729, 24543337, 24559956, 24576587, 24593228, 24609881, 24626545,
     24643220, 24659907, 24676605, 24693314, 24710035, 24726767, 24743510, 24760265,
     24777031, 24793808, 24810597, 24827397, 24844208, 24861031, 24877865, 24894711,
     24911568, 24928436, 24945316, 24962207, 24979110, 24996024, 25012949, 25029886,
     25046835, 25063795, 25080766, 25097749, 25114744, 25131750, 25148767, 25165796,
     25182837, 25199889, 25216952, 25234028, 25251114, 25268213, 25285323, 25302444,
     25319577, 25336722, 25353878, 25371046, 25388225, 25405417, 25422619, 25439834,
     25457060, 25474298, 25491547, 25508808, 25526081, 25543365, 25560662, 25577970,
     25595289, 25612621, 25629964, 25647318, 25664685, 25682063, 25699454, 25716855,
     25734269, 25751695, 25769132, 25786581, 25804042, 25821514, 25838999, 25856495,
     25874004, 25891524, 25909056, 25926599, 25944155, 25961723, 25979302, 25996894,
     26014497, 26032112, 26049739, 26067378, 26085029, 26102692, 26120367, 26138054,
     26155753, 26173464, 26191187, 26208922, 26226669, 26244427, 26262198, 26279981,
     26297776, 26315583, 26333402, 26351233, 26369077, 26386932, 26404799, 26422679,
     26440571, 26458474, 26476390, 26494318, 26512258, 26530210, 26548175, 26566151,
     26584140, 26602141, 26620154, 26638180, 26656217, 26674267, 26692329, 26710403,
     26728489, 26746588, 26764699, 26782822, 26800958, 26819106, 26837266, 26855438,
     26873623, 26891820, 26910029, 26928250, 26946484, 26964731, 26982989, 27001260,
     27019544, 27037839, 27056148, 27074468, 27092801, 27111146, 27129504, 27147874,
     27166257, 27184652, 27203060, 27221480, 27239912, 27258357, 27276815, 27295285,
     27313767, 27332262, 27350770, 27369290, 27387822, 27406367, 27424925, 27443495,
     27462078, 27480674, 27499282, 27517902, 27536536, 27555181, 27573840, 27592511,
     27611195, 27629891, 27648600, 27667322, 27686056, 27704803, 27723563, 27742336,
     27761121, 27779919, 27798729, 27817553, 27836389, 27855238, 27874099, 27892974,
     27911861, 27930761, 27949674, 27968599, 27987538, 28006489, 28025453, 28044430,
     28063419, 28082422, 28101438, 28120466, 28139507, 28158561, 28177628, 28196708,
     28215801, 28234907, 28254026, 28273157, 28292302, 28311459, 28330630, 28349814,
     28369010, 28388220, 28407442, 28426678, 28445926, 28465188, 28484463, 28503750,
     28523051, 28542365, 28561692, 28581032, 28600385, 28619751, 28639130, 28658523,
     28677928, 28697347, 28716779, 28736224, 28755682, 28775153, 28794638, 28814136,
     28833647, 28853171, 28872708, 28892259, 28911823, 28931400, 28950990, 28970594,
     28990211, 29009841, 29029484, 29049141, 29068811, 29088494, 29108191, 29127901,
     29147625, 29167361, 29187111, 29206875, 29226652, 29246442, 29266246, 29286063,
     29305893, 29325737, 29345595, 29365465, 29385350, 29405247, 29425158, 29445083,
     29465021, 29484973, 29504938, 29524917, 29544909, 29564915, 29584934, 29604967,
     29625013, 29645074, 29665147, 29685234, 29705335, 29725449, 29745577, 29765719,
     29785874, 29806043, 29826226, 29846422, 29866632, 29886856, 29907093, 29927344,
     29947609, 29967887, 29988179, 30008485, 30028805, 30049138, 30069486, 30089847,
     30110221, 30130610, 30151012, 30171428, 30191858, 30212302, 30232760, 30253231,
     30273717, 30294216, 30314729, 30335256, 30355797, 30376352, 30396921, 30417504,
     30438100, 30458711, 30479335, 30499974, 30520626, 30541293, 30561973, 30582668,
     30603376, 30624098, 30644835, 30665586, 30686350, 30707129, 30727922, 30748728,
     30769549, 30790384, 30811233, 30832097, 30852974, 30873866, 30894771, 30915691,
     30936625, 30957573, 30978535, 30999512, 31020503, 31041508, 31062527, 31083560,
     31104608, 31125670, 31146746, 31167836, 31188941, 31210060, 31231193, 31252341,
     31273503, 31294679, 31315870, 31337074, 31358294, 31379527, 31400775, 31422038,
     31443315, 31464606, 31485912, 31507232, 31528566, 31549915, 31571279, 31592656,
     31614049, 31635456, 31656877, 31678313, 31699763, 31721228, 31742707, 31764201,
     31785710, 31807233, 31828771, 31850323, 31871890, 31893471, 31915067, 31936678,
     31958303, 31979943, 32001598, 32023267, 32044951, 32066650, 32088363, 32110091,
     32131834, 32153591, 32175363, 32197150, 32218952, 32240768, 32262600, 32284446,
     32306306, 32328182, 32350072, 32371978, 32393898, 32415833, 32437782, 32459747,
     32481726, 32503721, 32525730, 32547754, 32569793, 32591847, 32613916, 32636000,
     32658099, 32680213, 32702342, 32724485, 32746644, 32768818, 32791007, 32813210,
     32835429, 32857663, 32879912, 32902176, 32924455, 32946749, 32969059, 32991383,
     33013722, 33036077, 33058447, 33080832, 33103232, 33125647, 33148077, 33170523,
     33192984, 33215460, 33237951, 33260457, 33282979, 33305516, 33328068, 33350635,
     33373218, 33395816, 33418430, 33441058, 33463702, 33486361, 33509036, 33531726,
     33554432 >>

\* ((1 << 24) * log2(440 * 2^((n - 69) / 12))) as i32 for the MIDI notes n = 0..127.
NOTE_LOGFREQ ==
  <<   50857776, 52255878, 53653979, 55052080, 56450182, 57848283, 59246384, 60644486,
     62042587, 63440688, 64838790, 66236891, 67634992, 69033094, 70431195, 71829296,
     73227398, 74625499, 76023600, 77421702, 78819803, 80217904, 81616006, 83014107,
     84412208, 85810310, 87208411, 88606512, 90004614, 91402715, 92800816, 94198918,
     95597019, 96995120, 98393222, 99791323, 101189424, 102587526, 103985627, 105383728,
     106781830, 108179931, 109578032, 110976134, 112374235, 113772336, 115170438, 116568539,
     117966640, 119364742, 120762843, 122160944, 123559046, 124957147, 126355248, 127753350,
     129151451, 130549552, 131947654, 133345755, 134743856, 136141958, 137540059, 138938160,
     140336262, 141734363, 143132464, 144530566, 145928667, 147326768, 148724870, 150122971,
     151521072, 152919174, 154317275, 155715376, 157113478, 158511579, 159909680, 161307782,
     162705883, 164103984, 165502086, 166900187, 168298288, 169696390, 171094491, 172492592,
     173890694, 175288795, 176686896, 178084998, 179483099, 180881200, 182279302, 183677403,
     185075504, 186473606, 187871707, 189269808, 190667910, 192066011, 193464112, 194862214,
     196260315, 197658416, 199056518, 200454619, 201852720, 203250822, 204648923, 206047024,
     207445126, 208843227, 210241328, 211639430, 213037531, 214435632, 215833734, 217231835,
     218629936, 220028038, 221426139, 222824240, 224222342, 225620443, 227018544, 228416646 >>

\* (24204406.0 * ln(1 + 0.01 * fine)) as i32 for fine = 0..99.
FINE_ADJUST ==
  <<   0, 240841, 479310, 715453, 949314, 1180936, 1410364, 1637637,
     1862796, 2085879, 2306926, 2525972, 2743053, 2958205, 3171461, 3382854,
     3592418, 3800182, 4006178, 4210436, 4412984, 4613852, 4813066, 5010655,
     5206643, 5401057, 5593921, 5785262, 5975101, 6163463, 6350371, 6535846,
     6719911, 6902586, 7083894, 7263853, 7442484, 7619806, 7795839, 7970601,
     8144110, 8316384, 8487441, 8657297, 8825969, 8993475, 9159829, 9325047,
     9489145, 9652139, 9814042, 9974869, 10134634, 10293352, 10451036, 10607700,
     10763356, 10918017, 11071696, 11224406, 11376158, 11526965, 11676838, 11825789,
     11973828, 12120968, 12267219, 12412591, 12557095, 12700742, 12843541, 12985503,
     13126637, 13266953, 13406460, 13545167, 13683084, 13820220, 13956583, 14092183,
     14227027, 14361123, 14494481, 14627109, 14759013, 14890202, 15020685, 15150467,
     15279558, 15407964, 15535692, 15662749, 15789143, 15914881, 16039968, 16164413,
     16288221, 16411399, 16533953, 16655890 >>

SIN_N_SAMPLES == 1024

\* SINTAB[(i << 1) + 1]
SinY0(i) == IF i < 512 THEN SINTAB_Y0[i + 1] ELSE -SINTAB_Y0[i - 511]

\* SINTAB[i << 1], the delta table.
SinDy(i) == IF i < SIN_N_SAMPLES - 1 THEN SinY0(i + 1) - SinY0(i)
                                     ELSE -SinY0(SIN_N_SAMPLES - 1)

\* Sin::lookup: SHIFT = 14, the table index is bits 14..23 of the phase.
SinLookup(phase) ==
  LET lowbits == phase % 16384
      i       == (phase \div 16384) % SIN_N_SAMPLES
  IN  SinY0(i) + MulShr(SinDy(i), lowbits, 7)

\* 2^(fp / 2^24) in Q24 for 0 <= fp < 2^24: the table entry below fp and a
\* linear step to the next one (within 4 units of the f64 value).
Exp2Mant(fp) ==
  LET j == fp \div 16384
  IN  EXP2_TAB[j + 1]
        + ((EXP2_TAB[j + 2] - EXP2_TAB[j + 1]) * (fp % 16384)) \div 16384

\* Exp2::lookup
Exp2Lookup(x) ==
  IF x < -20 * 16777216 THEN 0
  ELSE LET ip == x \div 16777216
           m  == Exp2Mant(x % 16777216)
       IN  IF ip >= 7 THEN I32_MAX
           ELSE IF ip >= 0 THEN m * (2 ^ ip) ELSE m \div (2 ^ (-ip))

\* i32::saturating_sub for a non-negative subtrahend.
SatSub(a, b) == IF a < I32_MIN + b THEN I32_MIN ELSE a - b

\* The gain threshold below which an operator is skipped (kLevelThresh).
LEVEL_THRESH == 1120

\* The linear gain of an envelope level: Exp2::lookup(level - (14 << 24)).
OpGain(env_level) == Exp2Lookup(SatSub(env_level, 14 * 16777216))

----------------------------------------------------------------------------
(* FmOpKernel (fm_op_kernel.rs).  Buffers are sequences of N samples.       *)

\* A block of N samples as a tuple, its elements computed once.
Block(f) == SubSeq(f, 1, N)

ZeroBlock == Block([ i \in 1..N |-> 0 ])

KernelDgain(gain1, gain2) == Shr(gain2 - gain1 + Shr(N, 1), LG_N)

\* FmOpKernel::compute with add = false: sample i reads the phase
\* phase0 + i * freq + input[i] and the gain gain1 + (i + 1) * dgain.
KernelCompute(input, phase0, freq, gain1, gain2) ==
  LET dgain == KernelDgain(gain1, gain2)
  IN  Block([ i \in 1..N |->
          MulShr(SinLookup(WrapAdd(WrapAdd(phase0, (i - 1) * freq), input[i])),
                 gain1 + i * dgain, 12) ])

\* FmOpKernel::compute_pure with add = false.
KernelComputePure(phase0, freq, gain1, gain2) ==
  LET dgain == KernelDgain(gain1, gain2)
  IN  Block([ i \in 1..N |->
          MulShr(SinLookup(WrapAdd(phase0, (i - 1) * freq)), gain1 + i * dgain, 12) ])

\* One iteration of the loop of FmOpKernel::compute_fb: sample i (1-based) is
\* computed from the two previous outputs y0 and y and appended to out.
KernelFbStep(st, i, phase0, freq, gain1, dgain, fb_shift) ==
  LET scaled_fb == Shr(st.y0 + st.y, Min(fb_shift + 1, 31))
      s         == SinLookup(WrapAdd(WrapAdd(phase0, (i - 1) * freq), scaled_fb))
      yn        == MulShr(s, gain1 + i * dgain, 12)
  IN  [ out |-> Append(st.out, yn), y0 |-> st.y, y |-> yn ]

\* Iterations lo..hi of that loop, in order; the range is split in halves and
\* the first half is completed before the second half starts.
RECURSIVE KernelFbLoop(_, _, _, _, _, _, _, _)
KernelFbLoop(st, lo, hi, phase0, freq, gain1, dgain, fb_shift) ==
  IF lo = hi THEN KernelFbStep(st, lo, phase0, freq, gain1, dgain, fb_shift)
  ELSE LET mid  == (lo + hi) \div 2
           left == KernelFbLoop(st, lo, mid, phase0, freq, gain1, dgain, fb_shift)
       IN  IF Len(left.out) = mid /\ left.y = left.y
             THEN KernelFbLoop(left, mid + 1, hi, phase0, freq, gain1, dgain,
                               fb_shift)
             ELSE left

\* FmOpKernel::compute_fb with add = false: the block and the feedback buffer.
KernelComputeFb(phase0, freq, gain1, gain2, fb_buf, fb_shift) ==
  LET st == KernelFbLoop([ out |-> << >>, y0 |-> fb_buf[1], y |-> fb_buf[2] ],
                         1, N, phase0, freq, gain1, KernelDgain(gain1, gain2),
                         fb_shift)
  IN  [ out |-> st.out, fb_buf |-> << st.y0, st.y >> ]

----------------------------------------------------------------------------
(* Dx7Patch (sysex.rs): the structured patch and its 155-byte image          *)

DX7_VOICE_SIZE == 155

\* OperatorParams with every field zero.
OpZero ==
  [ rates |-> <<0, 0, 0, 0>>, levels |-> <<0, 0, 0, 0>>,
    level_scaling_bp |-> 0, level_scaling_ld |-> 0, level_scaling_rd |-> 0,
    level_scaling_lc |-> 0, level_scaling_rc |-> 0, rate_scaling |-> 0,
    amp_mod_sens |-> 0, velocity_sens |-> 0, output_level |-> 0,
    osc_mode |-> 0, coarse_freq |-> 0, fine_freq |-> 0, detune |-> 0 ]

\* The 21 bytes Dx7Patch::to_data writes for one operator.
OpToData(op) ==
  << op.rates[1], op.rates[2], op.rates[3], op.rates[4],
     op.levels[1], op.levels[2], op.levels[3], op.levels[4],
     op.level_scaling_bp, op.level_scaling_ld, op.level_scaling_rd,
     (op.level_scaling_lc % 4) + 4 * (op.level_scaling_rc % 4),
     (8 * (op.detune % 128) + (op.rate_scaling % 8)) % 256,
     4 * (op.velocity_sens % 8) + (op.amp_mod_sens % 4),
     0,
     (op.osc_mode % 2) + 2 * (op.coarse_freq % 32),
     op.output_level, 0, 0, op.fine_freq, 0 >>

\* GlobalParams with every field zero.
GlobalZero ==
  [ pitch_eg_rate |-> <<0, 0, 0, 0>>, pitch_eg_level |-> <<0, 0, 0, 0>>,
    algorithm |-> 0, feedback |-> 0, osc_sync |-> 0, lfo_speed |-> 0,
    lfo_delay |-> 0, lfo_pitch_mod_depth |-> 0, lfo_amp_mod_depth |-> 0,
    lfo_sync |-> 0, lfo_waveform |-> 0, pitch_mod_sens |-> 0, transpose |-> 0 ]

\* The 19 global bytes 126..144 Dx7Patch::to_data writes.
GlobalToData(g) ==
  g.pitch_eg_rate \o g.pitch_eg_level
    \o << g.algorithm, g.feedback, g.osc_sync, g.lfo_speed, g.lfo_delay,
          g.lfo_pitch_mod_depth, g.lfo_amp_mod_depth, g.lfo_sync,
          g.lfo_waveform, g.pitch_mod_sens, g.transpose >>

\* Dx7Patch::to_data: six operators of 21 bytes, the global bytes 126..144 and
\* the name, which is ten spaces for the patches of this model.
ToData(patch) ==
  OpToData(patch.operators[1]) \o OpToData(patch.operators[2])
    \o OpToData(patch.operators[3]) \o OpToData(patch.operators[4])
    \o OpToData(patch.operators[5]) \o OpToData(patch.operators[6])
    \o GlobalToData(patch.global)
    \o << 32, 32, 32, 32, 32, 32, 32, 32, 32, 32 >>

\* Dx7Patch::from_data, one operator: the 21 bytes from base (0-based) on.
OpFromData(data, base) ==
  [ rates |-> << data[base + 1], data[base + 2], data[base + 3], data[base + 4] >>,
    levels |-> << data[base + 5], data[base + 6], data[base + 7], data[base + 8] >>,
    level_scaling_bp |-> data[base + 9], level_scaling_ld |-> data[base + 10],
    level_scaling_rd |-> data[base + 11], level_scaling_lc |-> data[base + 12],
    level_scaling_rc |-> data[base + 13], rate_scaling |-> data[base + 14],
    amp_mod_sens |-> data[base + 15], velocity_sens |-> data[base + 16],
    output_level |-> data[base + 17], osc_mode |-> data[base + 18],
    coarse_freq |-> data[base + 19], fine_freq |-> data[base + 20],
    detune |-> data[base + 21] ]

\* Dx7Patch::from_data, the global parameters: bytes 126..144.
GlobalFromData(data) ==
  [ pitch_eg_rate |-> << data[127], data[128], data[129], data[130] >>,
    pitch_eg_level |-> << data[131], data[132], data[133], data[134] >>,
    algorithm |-> data[135], feedback |-> data[136], osc_sync |-> data[137],
    lfo_speed |-> data[138], lfo_delay |-> data[139],
    lfo_pitch_mod_depth |-> data[140], lfo_amp_mod_depth |-> data[141],
    lfo_sync |-> data[142], lfo_waveform |-> data[143],
    pitch_mod_sens |-> data[144], transpose |-> data[145] ]

\* Dx7Patch::from_data on an image of DX7_VOICE_SIZE bytes; the name is left out.
FromData(data) ==
  [ operators |-> [ op \in 1..6 |-> OpFromData(data, (op - 1) * 21) ],
    global |-> GlobalFromData(data) ]

\* unpack_voice_data, one operator: the 21 bytes made of the 17 packed bytes
\* from bulk_base (0-based) on.
UnpackOperator(packed, bulk_base) ==
  LET p(i) == packed[bulk_base + i + 1]
      leftrightcurves == p(11) % 16
      detune_rs == p(12) % 128
      kvs_ams == p(13) % 32
      fcoarse_mode == p(15) % 64
  IN  << p(0), p(1), p(2), p(3), p(4), p(5), p(6), p(7), p(8), p(9), p(10),
         leftrightcurves % 4, (leftrightcurves \div 4) % 4,
         detune_rs % 8,
         kvs_ams % 4, (kvs_ams \div 4) % 8,
         p(14) % 128,
         fcoarse_mode % 2, (fcoarse_mode \div 2) % 32,
         p(16) % 128,
         (detune_rs \div 8) % 128 >>

\* unpack_voice_data: a packed voice of 128 bytes as an image of 155 bytes.  The
\* global bytes 126..144 are the packed bytes 102..120 and the name the packed
\* bytes 118..127.
UnpackVoiceData(packed) ==
  UnpackOperator(packed, 0) \o UnpackOperator(packed, 17)
    \o UnpackOperator(packed, 34) \o UnpackOperator(packed, 51)
    \o UnpackOperator(packed, 68) \o UnpackOperator(packed, 85)
    \o SubSeq(packed, 103, 121)
    \o SubSeq(packed, 119, 128)

\* Patch::unpack, one operator: the 17 packed bytes from base (0-based) on.
PatchUnpackOperator(data, base) ==
  LET op_data(i) == data[base + i + 1]
  IN  [ envelope |->
          [ rate |-> [ j \in 1..4 |-> Min(op_data(j - 1) % 128, 99) ],
            level |-> [ j \in 1..4 |-> Min(op_data(3 + j) % 128, 99) ] ],
        keyboard_scaling |->
          [ break_point |-> Min(op_data(8) % 128, 99),
            left_depth |-> Min(op_data(9) % 128, 99),
            right_depth |-> Min(op_data(10) % 128, 99),
            left_curve |-> op_data(11) % 4,
            right_curve |-> (op_data(11) \div 4) % 4 ],
        rate_scaling |-> op_data(12) % 8,
        amp_mod_sensitivity |-> op_data(13) % 4,
        velocity_sensitivity |-> (op_data(13) \div 4) % 8,
        level |-> Min(op_data(14) % 128, 99),
        mode |-> op_data(15) % 2,
        coarse |-> (op_data(15) \div 2) % 32,
        fine |-> Min(op_data(16) % 128, 99),
        detune |-> Min((op_data(12) \div 8) % 16, 14) ]

\* Patch::unpack on a packed voice of 128 bytes; the name is left out.
PatchUnpack(data) ==
  [ op |-> [ i \in 1..6 |-> PatchUnpackOperator(data, (i - 1) * 17) ],
    pitch_envelope |->
      [ rate |-> [ j \in 1..4 |-> Min(data[102 + j] % 128, 99) ],
        level |-> [ j \in 1..4 |-> Min(data[106 + j] % 128, 99) ] ],
    algorithm |-> data[111] % 32,
    feedback |-> data[112] % 8,
    reset_phase |-> (data[112] \div 8) % 2,
    modulations |->
      [ rate |-> Min(data[113] % 128, 99),
        delay |-> Min(data[114] % 128, 99),
        pitch_mod_depth |-> Min(data[115] % 128, 99),
        amp_mod_depth |-> Min(data[116] % 128, 99),
        reset_phase |-> data[117] % 2,
        waveform |-> Min((data[117] \div 2) % 8, 5),
        pitch_mod_sensitivity |-> data[117] \div 16 ],
    transpose |-> Min(data[118] % 128, 48) ]

----------------------------------------------------------------------------
(* Dx7Note (dx7note.rs): scaling functions                                  *)

VELOCITY_DATA ==
  <<   0, 70, 86, 97, 106, 114, 121, 126, 132, 138, 142, 148,
     152, 156, 160, 163, 166, 170, 173, 174, 178, 181, 184, 186,
     189, 190, 194, 196, 198, 200, 202, 205, 206, 209, 211, 214,
     216, 218, 220, 222, 224, 225, 227, 229, 230, 232, 233, 235,
     237, 238, 240, 241, 242, 243, 244, 246, 246, 248, 249, 250,
     251, 252, 253, 254 >>

EXP_SCALE_DATA ==
  <<   0, 1, 2, 3, 4, 5, 6, 7, 8, 9, 11, 14,
     16, 19, 23, 27, 33, 39, 47, 56, 66, 80, 94, 110,
     126, 142, 158, 174, 190, 206, 222, 238, 250 >>

COARSE_MUL ==
  <<   -16777216, 0, 16777216, 26591258, 33554432, 38955489,
     43368474, 47099600, 50331648, 53182516, 55732705, 58039632,
     60145690, 62083076, 63876816, 65546747, 67108864, 68576247,
     69959732, 71268397, 72509921, 73690858, 74816848, 75892776,
     76922906, 77910978, 78860292, 79773775, 80654032, 81503396,
     82323963, 83117622 >>

\* One row of operator flags per algorithm 1..32.
ALGORITHMS ==
  << <<193, 17, 17, 20, 1, 20>>,
     <<1, 17, 17, 20, 193, 20>>,
     <<193, 17, 20, 1, 17, 20>>,
     <<193, 17, 148, 1, 17, 20>>,
     <<193, 20, 1, 20, 1, 20>>,
     <<193, 148, 1, 20, 1, 20>>,
     <<193, 17, 5, 20, 1, 20>>,
     <<1, 17, 197, 20, 1, 20>>,
     <<1, 17, 5, 20, 193, 20>>,
     <<1, 5, 20, 193, 17, 20>>,
     <<193, 5, 20, 1, 17, 20>>,
     <<1, 5, 5, 20, 193, 20>>,
     <<193, 5, 5, 20, 1, 20>>,
     <<193, 5, 17, 20, 1, 20>>,
     <<1, 5, 17, 20, 193, 20>>,
     <<193, 17, 2, 37, 5, 20>>,
     <<1, 17, 2, 37, 197, 20>>,
     <<1, 17, 17, 197, 5, 20>>,
     <<193, 20, 20, 1, 17, 20>>,
     <<1, 5, 20, 193, 20, 20>>,
     <<1, 20, 20, 193, 20, 20>>,
     <<193, 20, 20, 20, 1, 20>>,
     <<193, 20, 20, 1, 20, 4>>,
     <<193, 20, 20, 20, 4, 4>>,
     <<193, 20, 20, 4, 4, 4>>,
     <<193, 5, 20, 1, 20, 4>>,
     <<1, 5, 20, 193, 20, 4>>,
     <<4, 193, 5, 20, 1, 20>>,
     <<193, 5, 20, 4, 1, 20>>,
     <<4, 193, 5, 20, 4, 4>>,
     <<193, 4, 4, 4, 4, 4>>,
     <<193, 4, 4, 4, 4, 4>> >>

\* scale_velocity
ScaleVelocity(velocity, sensitivity) ==
  LET clamped_vel == Max(0, Min(velocity, 127))
      vel_value   == VELOCITY_DATA[Shr(clamped_vel, 1) + 1] - 239
  IN  Shl(Shr(sensitivity * vel_value + 7, 3), 4)

\* scale_rate
ScaleRate(midinote, sensitivity) ==
  Shr(sensitivity * Max(0, Min(midinote \div 3 - 7, 31)), 3)

\* scale_curve
ScaleCurve(group, depth, curve) ==
  LET scale == IF curve = 0 \/ curve = 3
                 THEN Shr(group * depth * 329, 12)
                 ELSE Shr(EXP_SCALE_DATA[Min(group, 32) + 1] * depth * 329, 15)
  IN  IF curve < 2 THEN -scale ELSE scale

\* scale_level
ScaleLevel(midinote, break_pt, left_depth, right_depth, left_curve, right_curve) ==
  LET offset == midinote - break_pt - 17
  IN  IF offset >= 0
        THEN ScaleCurve((offset + 1) \div 3, right_depth, right_curve)
        ELSE ScaleCurve((-(offset - 1)) \div 3, left_depth, left_curve)

\* scale_out_level without the table of the levels below 20.
ScaleOutLevelLinear(outlevel) == 28 + outlevel

\* scale_out_level
ScaleOutLevel(outlevel) ==
  IF outlevel >= 20 THEN 28 + outlevel ELSE LEVEL_LUT[outlevel + 1]

\* osc_freq: the logarithmic frequency in Q24.
OscFreq(midinote, mode, coarse, fine, detune) ==
  IF mode = 0
    THEN NOTE_LOGFREQ[midinote + 1] + COARSE_MUL[(coarse % 32) + 1]
           + FINE_ADJUST[fine + 1]
           + (IF detune # 7 THEN 13457 * (detune - 7) ELSE 0)
    ELSE Shr(4458616 * ((coarse % 4) * 100 + fine), 3)
           + (IF detune > 7 THEN 13457 * (detune - 7) ELSE 0)

\* The phase increment of Dx7Note::apply_patch:
\* (2^(logfreq / 2^24) * 65536 / 44100) as i32.
PhaseInc(logfreq) ==
  LET ip == logfreq \div 16777216
      m  == Exp2Mant(logfreq % 16777216)
      k  == ip - 8
  IN  IF k >= 0
        THEN (m \div 44100) * (2 ^ k) + ((m % 44100) * (2 ^ k)) \div 44100
        ELSE m \div (44100 * (2 ^ (-k)))

----------------------------------------------------------------------------
(* Dx7Note (dx7note.rs): one playing note                                   *)

\* FmOperator::new; the fields level, fb_buf and enabled of the source are not
\* read by Dx7Note::process and are left out.
OperatorNew == [ env |-> EnvNew, phase |-> 0, freq |-> 0 ]

\* Dx7Note::new
NoteNew ==
  [ operators |-> [ i \in 1..6 |-> OperatorNew ], note |-> 60, velocity |-> 64,
    algorithm |-> 1, active |-> FALSE, phase |-> 0, fb_buf |-> <<0, 0>>,
    fb_shift |-> 16 ]

\* Byte b (0-based, as in the source) of a patch image.
Byte(data, b) == data[b + 1]

\* The outlevel scaled to eight times its value and left without a cap.
ScaledOutlevelTimesEight(outlevel) == IF outlevel > 0 THEN outlevel * 8 ELSE 0

\* scaled_outlevel of Dx7Note::apply_patch: the outlevel handed to Env::init.
ScaledOutlevel(outlevel) == IF outlevel > 0 THEN Min(outlevel, 20000) ELSE 0

\* Dx7Note::apply_patch, the part for operator i (0-based): it reads the 21
\* bytes of patch operator 5 - i.
ApplyPatchOp(nt, op, i, data, mult) ==
  LET off        == (5 - i) * 21
      rates      == << Byte(data, off), Byte(data, off + 1), Byte(data, off + 2),
                       Byte(data, off + 3) >>
      levels     == << Byte(data, off + 4), Byte(data, off + 5), Byte(data, off + 6),
                       Byte(data, off + 7) >>
      ol         == Byte(data, off + 16)
      fcm        == Byte(data, off + 15)
      detune_rs  == Byte(data, off + 12)
      curves     == Byte(data, off + 11)
      vas        == Byte(data, off + 13)
      lvl0       == ScaleOutLevel(ol)
                      + ScaleLevel(nt.note, Byte(data, off + 8), Byte(data, off + 9),
                                   Byte(data, off + 10), curves % 4,
                                   Shr(curves, 2) % 4)
      lvl1       == Max(Shl(Min(lvl0, 127), 5)
                          + ScaleVelocity(nt.velocity, Shr(vas, 2) % 8), 0)
      scaled     == ScaledOutlevel(lvl1)
      logfreq    == OscFreq(nt.note, fcm % 2, Shr(fcm, 1) % 32, Byte(data, off + 19),
                            Shr(detune_rs, 3) % 128)
  IN  [ op EXCEPT !.env  = EnvInit(op.env, rates, levels, scaled,
                                   ScaleRate(nt.note, detune_rs % 8), mult),
                  !.freq = PhaseInc(logfreq) ]

\* Dx7Note::apply_patch
ApplyPatch(nt, data, mult) ==
  IF Len(data) < DX7_VOICE_SIZE THEN nt
  ELSE LET feedback == Byte(data, 135)
       IN  [ nt EXCEPT
               !.algorithm = (Byte(data, 134) + 1) % 256,
               !.fb_shift  = IF feedback # 0 THEN Max(7 - (feedback % 8), 0) ELSE 16,
               !.operators = [ k \in 1..6 |->
                                 ApplyPatchOp(nt, nt.operators[k], k - 1, data, mult) ] ]

\* Dx7Note::init: the note phase is cleared, the operators' phases and the
\* feedback buffer are not.
NoteInit(nt, note, velocity, mult) ==
  [ nt EXCEPT !.note = note, !.velocity = velocity, !.active = TRUE, !.phase = 0,
              !.operators = [ k \in 1..6 |->
                  [ nt.operators[k] EXCEPT
                      !.env = EnvKeydown(nt.operators[k].env, TRUE, mult) ] ] ]

\* Dx7Note::set_algorithm
NoteSetAlgorithm(nt, algorithm) == [ nt EXCEPT !.algorithm = Min(algorithm, 32) ]

\* Dx7Note::release
NoteRelease(nt, mult) ==
  [ nt EXCEPT !.operators = [ k \in 1..6 |->
                  [ nt.operators[k] EXCEPT
                      !.env = EnvKeydown(nt.operators[k].env, FALSE, mult) ] ] ]

\* Dx7Note::is_active
NoteIsActive(nt) ==
  nt.active /\ \E k \in 1..6 : EnvPosition(nt.operators[k].env) < 4

\* Flag fields of one ALGORITHMS entry.
FlagAdd(flags) == (flags \div 4) % 2 = 1

FlagInbus(flags) == (flags \div 16) % 4

FlagOutbus(flags) == flags % 4

FlagFeedback(flags) == (flags \div 64) % 4 = 3

\* Element-wise sum of two blocks.
AddBlocks(a, b) == Block([ i \in 1..N |-> a[i] + b[i] ])

\* The routing step that looks at the ADD flag alone.
RouteBlockAddFlagOnly(target, op_output, add, has) ==
  IF add THEN AddBlocks(target, op_output) ELSE op_output

\* The routing step of Dx7Note::process: op_output is added to the bus when the
\* operator adds and the bus has contents, and replaces it otherwise.
RouteBlock(target, op_output, add, has) ==
  IF add /\ has THEN AddBlocks(target, op_output) ELSE op_output

\* The flags of operator k (1-based) in the note's algorithm.
OpFlags(nt, k) == ALGORITHMS[((nt.algorithm - 1) % 32) + 1][k]

\* Operator k reads no input bus: its flags name none, or the bus is empty.
OpPlain(st, k) ==
  FlagInbus(OpFlags(st.note, k)) = 0 \/ ~st.has[FlagInbus(OpFlags(st.note, k)) + 1]

\* Operator k runs the feedback kernel whatever the feedback shift.
OpUsesFbAnyShift(st, k) == OpPlain(st, k) /\ FlagFeedback(OpFlags(st.note, k))

\* Operator k runs the feedback kernel.
OpUsesFb(st, k) ==
  OpPlain(st, k) /\ FlagFeedback(OpFlags(st.note, k)) /\ st.note.fb_shift < 16

\* The kernel call of the operator loop of Dx7Note::process for operator k:
\* the block it computes and the feedback buffer after it.
OpKernel(st, k, gain) ==
  IF OpUsesFb(st, k)
    THEN KernelComputeFb(st.note.operators[k].phase, st.note.operators[k].freq,
                         gain, gain, st.note.fb_buf, st.note.fb_shift)
    ELSE [ out    |-> IF OpPlain(st, k)
                        THEN KernelComputePure(st.note.operators[k].phase,
                                               st.note.operators[k].freq, gain, gain)
                        ELSE KernelCompute(st.bus[FlagInbus(OpFlags(st.note, k))],
                                           st.note.operators[k].phase,
                                           st.note.operators[k].freq, gain, gain),
           fb_buf |-> st.note.fb_buf ]

\* The end of the loop body for operator k: the envelope and the phase are
\* stored, and the block kr.out is routed to the operator's bus when the
\* operator is audible.
OpStore(st, k, env2, audible, kr) ==
  LET flags  == OpFlags(st.note, k)
      add    == FlagAdd(flags)
      outbus == FlagOutbus(flags)
      op     == st.note.operators[k]
      op2    == [ op EXCEPT !.env = env2,
                            !.phase = WrapAdd(op.phase, Shl(op.freq, LG_N)) ]
      nt2    == [ st.note EXCEPT !.operators[k] = op2,
                                 !.fb_buf = IF audible THEN kr.fb_buf ELSE @ ]
  IN  IF audible
        THEN [ note   |-> nt2,
               output |-> IF outbus = 0
                            THEN RouteBlock(st.output, kr.out, add, st.has[1])
                            ELSE st.output,
               bus    |-> << IF outbus = 1
                                THEN RouteBlock(st.bus[1], kr.out, add, st.has[2])
                                ELSE st.bus[1],
                              IF outbus = 2
                                THEN RouteBlock(st.bus[2], kr.out, add, st.has[3])
                                ELSE st.bus[2] >>,
               has    |-> [ st.has EXCEPT ![outbus + 1] = TRUE ],
               routed |-> [ st.routed EXCEPT ![k] = outbus ] ]
        ELSE [ st EXCEPT !.note = nt2,
                         !.has[outbus + 1] = IF add THEN @ ELSE FALSE ]

\* The loop body from the gain on.
OpWithGain(st, k, env2, gain) ==
  OpStore(st, k, env2, gain >= LEVEL_THRESH, OpKernel(st, k, gain))

\* The loop body from the envelope sample on.
OpWithEnv(st, k, env2) == OpWithGain(st, k, env2, OpGain(env2.level))

\* The body of the operator loop of Dx7Note::process for operator k (1-based).
\* st holds the note, the output, the two scratch buses (bus[1], bus[2]), the
\* has_contents flags (has[1] is the output, has[2] and has[3] the buses) and,
\* for each operator, the bus it wrote its block to (-1: it was skipped).
NoteProcessOp(st, k, mult) ==
  OpWithEnv(st, k, EnvGetSample(st.note.operators[k].env, mult))

\* The operator loop of Dx7Note::process from operator k on; the step of the
\* operator before k is complete when operator k starts.
RECURSIVE NoteProcessLoop(_, _, _)
NoteProcessLoop(st, k, mult) ==
  IF st.has = st.has /\ k > 6 THEN st
  ELSE NoteProcessLoop(NoteProcessOp(st, k, mult), k + 1, mult)

\* Dx7Note::process: the note after the block, the caller's buffer as the call
\* leaves it, and the bus each operator was routed to.
NoteProcess(nt, output, mult) ==
  IF ~NoteIsActive(nt)
    THEN [ note |-> nt, output |-> output, routed |-> [ k \in 1..6 |-> -1 ] ]
    ELSE LET st == NoteProcessLoop(
                     [ note |-> nt, output |-> ZeroBlock,
                       bus |-> << ZeroBlock, ZeroBlock >>,
                       has |-> << TRUE, FALSE, FALSE >>,
                       routed |-> [ k \in 1..6 |-> -1 ] ], 1, mult)
         IN  [ note |-> st.note, output |-> st.output, routed |-> st.routed ]

----------------------------------------------------------------------------
(* FmCore (fm_core.rs): voices, patch image, volume and limiter              *)

\* Controllers::new: the volume controller.
VOLUME_DEFAULT == 100

\* Controllers::get_volume_amount for volume 100: the f32 nearest to 100 / 127
\* is 13210406 * 2^-24.
VOLUME_F32_Q24 == 13210406

\* Number of bits of a natural number.
RECURSIVE BitLen(_)
BitLen(x) == IF x = 0 THEN 0 ELSE 1 + BitLen(x \div 2)

\* (sample as f32 * volume) as i32 for |sample| < 2^24: the 48-bit product
\* a * VOLUME_F32_Q24 is formed in 24-bit halves (hi, lo), rounded to the 24
\* significant bits of an f32 (to nearest, ties to even) and truncated.
VolumeMagnitude(a) ==
  LET s1     == a \div 4096
      s0     == a % 4096
      m1     == VOLUME_F32_Q24 \div 4096
      m0     == VOLUME_F32_Q24 % 4096
      mid    == s1 * m0 + s0 * m1
      losum  == s0 * m0 + (mid % 4096) * 4096
      lo     == losum % 16777216
      hi     == s1 * m1 + mid \div 4096 + losum \div 16777216
      h      == BitLen(hi)
      drop   == lo % (2 ^ h)
      kept   == lo \div (2 ^ h)
      odd    == IF h < 24 THEN kept % 2 = 1 ELSE hi % 2 = 1
      half   == IF h = 0 THEN 0 ELSE 2 ^ (h - 1)
      up     == h > 0 /\ (drop > half \/ (drop = half /\ odd))
  IN  IF up /\ kept = (2 ^ (24 - h)) - 1 THEN hi + 1 ELSE hi

\* The volume step of FmCore::process.  A sample of magnitude 2^24 or more is
\* first rounded by its conversion to f32; its product is far above the limiter
\* bound whichever way it rounds, and is given here as the product of 2^24 - 1.
VolumeScale(sample) ==
  LET a == Min(IF sample < 0 THEN -sample ELSE sample, 16777215)
  IN  IF sample < 0 THEN -VolumeMagnitude(a) ELSE VolumeMagnitude(a)

\* FmCore::process without its limiter.
LimitOff(sample) == sample

\* The limiter of FmCore::process: clamp to the 24-bit range.
Limit(sample) == Max(-8388608, Min(sample, 8388607))

\* Voice::new
VoiceNew == [ note |-> NoteNew, age |-> 0, midi_note |-> 0, midi_channel |-> 0 ]

\* Lfo::new: the fields that key-on and set_lfo_params write; no call of the
\* core advances the LFO, so its rate and delay increments are never read.
LfoNew == [ phase |-> 0, sync |-> FALSE, delaystate |-> 0 ]

\* Lfo::reset, as far as these fields go: params[4] is the key sync.
LfoReset(lfo, params) == [ lfo EXCEPT !.sync = params[5] # 0 ]

\* FmCore::new
CoreNew(max_voices) ==
  [ voices |-> [ v \in 1..max_voices |-> VoiceNew ], voice_counter |-> 0,
    volume |-> VOLUME_DEFAULT, patch_data |-> [ b \in 1..DX7_VOICE_SIZE |-> 0 ],
    lfo |-> LfoNew ]

\* FmCore::load_patch and apply_patch_parameters
CoreLoadPatch(core, data, mult) ==
  IF Len(data) >= DX7_VOICE_SIZE
    THEN [ core EXCEPT
             !.patch_data = data,
             !.voices = [ v \in DOMAIN core.voices |->
                            [ core.voices[v] EXCEPT
                                !.note = ApplyPatch(core.voices[v].note, data, mult) ] ] ]
    ELSE core

\* Voice::is_free
VoiceIsFree(voice) == ~NoteIsActive(voice.note)

\* FmCore::find_voice_for_note: the first free voice, else the first of the
\* voices of least age.
FindVoiceForNote(core) ==
  LET vs   == DOMAIN core.voices
      free == { v \in vs : VoiceIsFree(core.voices[v]) }
      pick(S) == CHOOSE v \in S : \A w \in S : v <= w
  IN  IF free # {} THEN pick(free)
      ELSE pick({ v \in vs : \A w \in vs : core.voices[v].age <= core.voices[w].age })

\* Voice::trigger
VoiceTrigger(voice, midi_note, velocity, channel, age, data, mult) ==
  LET inited == NoteInit(voice.note, midi_note, velocity, mult)
  IN  [ voice EXCEPT !.midi_note = midi_note, !.midi_channel = channel, !.age = age,
                     !.note = IF Len(data) >= DX7_VOICE_SIZE
                                THEN ApplyPatch(inited, data, mult) ELSE inited ]

\* FmCore::note_on
CoreNoteOn(core, midi_note, velocity, channel, mult) ==
  LET v == FindVoiceForNote(core)
  IN  [ core EXCEPT
          !.voice_counter = core.voice_counter + 1,
          !.voices[v] = VoiceTrigger(core.voices[v], midi_note, velocity, channel,
                                     core.voice_counter + 1, core.patch_data, mult) ]

\* FmCore::note_off
CoreNoteOff(core, midi_note, channel, mult) ==
  [ core EXCEPT
      !.voices = [ v \in DOMAIN core.voices |->
          IF /\ core.voices[v].midi_note = midi_note
             /\ core.voices[v].midi_channel = channel
             /\ NoteIsActive(core.voices[v].note)
            THEN [ core.voices[v] EXCEPT !.note = NoteRelease(@, mult) ]
            ELSE core.voices[v] ] ]

\* The body of the voice loop of FmCore::process once voice v has processed
\* the block: r is what Dx7Note::process returned.
CoreVoiceStored(st, v, r) ==
  [ core   |-> [ st.core EXCEPT !.voices[v].note = r.note,
                                !.voices[v].age = @ + 1 ],
    output |-> r.output,
    active_voices |-> st.active_voices + 1 ]

\* The body of the voice loop of FmCore::process for voice v.
CoreVoiceStep(st, v, mult) ==
  IF NoteIsActive(st.core.voices[v].note)
    THEN CoreVoiceStored(st, v, NoteProcess(st.core.voices[v].note, st.output, mult))
    ELSE st

\* The voice loop of FmCore::process from voice v on.
RECURSIVE CoreVoiceLoop(_, _, _)
CoreVoiceLoop(st, v, mult) ==
  IF st.active_voices = st.active_voices /\ v > Len(st.core.voices) THEN st
  ELSE CoreVoiceLoop(CoreVoiceStep(st, v, mult), v + 1, mult)

\* The volume and limiting step of FmCore::process on the mixed block.
CoreVolume(r) ==
  [ core   |-> r.core,
    mix    |-> r.output,
    active_voices |-> r.active_voices,
    output |-> IF r.active_voices > 0
                 THEN Block([ i \in 1..N |-> Limit(VolumeScale(r.output[i])) ])
                 ELSE r.output ]

\* FmCore::process: the core after the block, the block before the volume step
\* (mix) and the block returned (output).
CoreProcess(core, mult) ==
  CoreVolume(CoreVoiceLoop([ core |-> core, output |-> ZeroBlock,
                             active_voices |-> 0 ], 1, mult))

----------------------------------------------------------------------------
(* State                                                                   *)

VARIABLES
  sample_rate,    \* the sample rate the engine was initialised with
  sr_multiplier,  \* env.rs SR_MULTIPLIER
  env,            \* SpecEnv: one Env
  envPatch,       \* SpecEnv: index of the parameters given to Env::init, 0 before
  envOffs,        \* SpecEnv: number of key releases so far
  envRelBlocks,   \* SpecEnv: get_sample calls since key-off on an unfinished envelope
  fm_core,            \* Dx7Synth.fm_core
  current_patch,      \* Dx7Synth.current_patch: index into PATCHES, 0 for None
  max_length_samples, \* Dx7Synth.max_length_samples
  pc,                 \* render_note: "idle" outside a call, "gate" in the gate loop
  call,               \* render_note: the arguments of the running call
  max_samples,        \* render_note: max_samples
  samples_generated,  \* render_note: samples_generated
  output_samples,     \* render_note: output_samples, as the i32 samples (x / 2^23)
  result,             \* how the last render_note call ended
  renders,            \* the calls that rendered so far, with their buffers
  loads,              \* number of load_patch calls so far
  coreNotes,          \* SpecCore: number of note_on calls so far
  coreBlocks,         \* SpecCore: number of process calls so far
  coreLast,           \* SpecCore: what the last process call computed
  coreTriggered,      \* SpecCore: from the first note_on on, for each voice the
                      \* note_on call that triggered it last (1 for the first
                      \* call), 0 for a voice never triggered
  voice,                      \* generate_samples: the behaviour of the Voice
  n_samples,                  \* generate_samples: n_samples
  remaining,                  \* generate_samples: remaining
  output_len,                 \* generate_samples: output.len()
  consecutive_silent_samples, \* generate_samples: consecutive_silent_samples
  threshold_reached_at,       \* output length at which the silent run first
                              \* reached silence_duration_samples, 0 before
  stopped_on,                 \* generate_samples: "none" while it runs, then
                              \* "silence" or "cap"
  sysexStep,    \* SpecSysex: "idle", then what was done to the patch or the bytes
  sysexPatch,   \* SpecSysex: the Dx7Patch given to to_data
  sysexPacked,  \* SpecSysex: a packed voice of 128 bytes, as read from a bank
  sysexData,    \* SpecSysex: a voice image of DX7_VOICE_SIZE bytes
  sysexParsed,  \* SpecSysex: the Dx7Patch that from_data returned
  sysexVoice,   \* SpecSysex: the Patch that Patch::new returned
  algPc,        \* SpecAlg: "idle", "compile", "render", "done", "panic" or "note"
  algAlgorithm, \* SpecAlg: the algorithm (0-based) Algorithms::compile works on
  algI,         \* SpecAlg: the operator index i of the running loop
  algCalls,     \* SpecAlg: render_calls[algorithm]
  algRendered,  \* SpecAlg: the operators render_internal has rendered, in order
  kernelPc,     \* SpecKernel: "idle", "loop", "done" or "trap"
  kernelChecks, \* SpecKernel: the build checks integer overflow (as a debug build)
  kernelArgs,   \* SpecKernel: the kernel called and its arguments
  kernelLoop    \* SpecKernel: i, phase, y0, y and the output written so far

envVars == << env, envPatch, envOffs, envRelBlocks >>

synthVars == << fm_core, current_patch, max_length_samples, pc, call, max_samples,
                samples_generated, output_samples, result, renders, loads >>

polyVars == << coreNotes, coreBlocks, coreLast, coreTriggered >>

driverVars == << voice, n_samples, remaining, output_len, consecutive_silent_samples,
                 threshold_reached_at, stopped_on >>

sysexVars == << sysexStep, sysexPatch, sysexPacked, sysexData, sysexParsed,
                sysexVoice >>

kernelVars == << kernelPc, kernelChecks, kernelArgs, kernelLoop >>

algVars == << algPc, algAlgorithm, algI, algCalls, algRendered, kernelVars >>

vars == << sample_rate, sr_multiplier, envVars, synthVars, polyVars, driverVars,
           sysexVars, algVars >>

\* Sample rates the engine is initialised with.
SAMPLE_RATES == { 44100, 48000 }

----------------------------------------------------------------------------
(* Dx7Synth (synth.rs): patches, load_patch and render_note                *)

\* An operator of a structured patch with the given envelope, output level,
\* coarse frequency and detune; every other parameter as Dx7Patch::new leaves it.
PatchOp(rates, levels, output_level, coarse_freq, detune) ==
  [ OpZero EXCEPT !.rates = rates, !.levels = levels,
                  !.output_level = output_level, !.coarse_freq = coarse_freq,
                  !.detune = detune ]

\* The patches the model loads:
\*   1  the patch of test_render_note (algorithm 1, one sounding operator)
\*   2  Dx7Patch::new unchanged: every operator silent
\*   3  algorithm 32 with six operators at full level
\*   4  algorithm 5 with feedback 7 and two sounding operators
\*   5  six operators of output level 0 with open envelopes, raised above the
\*      break point by a +LIN right curve of depth 99
\*   6  six operators of output level 0 with open envelopes, no keyboard
\*      level scaling and velocity sensitivity 7
\*   7  six operators just above the audibility threshold (output level 4)
\*      with the fastest release
\*   8  algorithm 16 with operators 6, 4, 3 and 1 sounding and operators 5
\*      and 2 silent: operator 5 empties bus 1 after operator 6 wrote it
PATCHES ==
  << [ operators |-> << PatchOp(<<50, 50, 50, 30>>, <<99, 90, 80, 0>>, 80, 1, 7),
                        OpZero, OpZero, OpZero, OpZero, OpZero >>,
       global |-> GlobalZero ],
     [ operators |-> << OpZero, OpZero, OpZero, OpZero, OpZero, OpZero >>,
       global |-> GlobalZero ],
     [ operators |-> [ k \in 1..6 |->
                         PatchOp(<<99, 99, 99, 60>>, <<99, 99, 99, 0>>, 99, 31, 7) ],
       global |-> [ GlobalZero EXCEPT !.algorithm = 31 ] ],
     [ operators |-> << OpZero, OpZero, OpZero, OpZero,
                        PatchOp(<<99, 99, 99, 60>>, <<99, 99, 99, 0>>, 99, 3, 7),
                        PatchOp(<<99, 80, 99, 60>>, <<99, 90, 99, 0>>, 90, 7, 9) >>,
       global |-> [ GlobalZero EXCEPT !.algorithm = 4, !.feedback = 7 ] ],
     [ operators |-> [ k \in 1..6 |->
                         [ PatchOp(<<99, 99, 99, 60>>, <<99, 99, 99, 0>>, 0, 1, 7)
                             EXCEPT !.level_scaling_rd = 99,
                                    !.level_scaling_rc = 3 ] ],
       global |-> [ GlobalZero EXCEPT !.algorithm = 31 ] ],
     [ operators |-> [ k \in 1..6 |->
                         [ PatchOp(<<99, 99, 99, 60>>, <<99, 99, 99, 0>>, 0, 1, 7)
                             EXCEPT !.velocity_sens = 7 ] ],
       global |-> [ GlobalZero EXCEPT !.algorithm = 31 ] ],
     [ operators |-> [ k \in 1..6 |->
                         PatchOp(<<99, 99, 99, 99>>, <<99, 99, 99, 0>>, 4, 1, 7) ],
       global |-> GlobalZero ],
     [ operators |-> << PatchOp(<<99, 99, 99, 60>>, <<99, 99, 99, 0>>, 99, 1, 7),
                        OpZero,
                        PatchOp(<<99, 99, 99, 60>>, <<99, 99, 99, 0>>, 99, 2, 7),
                        PatchOp(<<99, 99, 99, 60>>, <<99, 99, 99, 0>>, 99, 1, 7),
                        OpZero,
                        PatchOp(<<99, 99, 99, 60>>, <<99, 99, 99, 0>>, 99, 3, 7) >>,
       global |-> [ GlobalZero EXCEPT !.algorithm = 15 ] ] >>

\* Arguments of render_note: MIDI notes (128 is out of range), velocities (128
\* is out of range) and note lengths in milliseconds.
MIDI_NOTES == { 72, 128 }

VELOCITIES == { 100, 128 }

NOTE_LENGTHS_MS == { 2, 4 }

\* max_length_seconds given to Dx7Synth::new, in milliseconds.
MAX_LENGTH_MS == 3

\* The patches Dx7Synth::load_patch is called with.
SYNTH_PATCHES == 1..6

\* Calls of render_note that render, and calls of load_patch, in one run.
MaxRenders == 2

MaxLoads == 2

\* (seconds * sample_rate) as usize for a whole number of milliseconds.
LengthSamples(sr, ms) == (sr * ms) \div 1000

\* |sample as f32 / 2^23| > 1e-6, the silence test of the tail loop.
AboveSilence(sample) == sample >= 9 \/ sample <= -9

\* |sample as f32 / 2^23| > 1e-8, the test of the all-zero assertion.
NonZero(sample) == sample # 0

\* Dx7Synth::apply_patch_to_core: the patch image is loaded into the core and
\* the controllers are reset.
ApplyPatchToCore(core, p, mult) ==
  [ CoreLoadPatch(core, ToData(PATCHES[p]), mult) EXCEPT !.volume = VOLUME_DEFAULT ]

\* The samples of one block the tail loop looks at and keeps.
TailKept(st, limit, r) == SubSeq(r.output, 1, Min(limit - st.samples_generated, N))

\* silence_count after the samples kept of one block: zero at a sample above
\* the silence test, one more at any other.
RECURSIVE SilenceCount(_, _, _)
SilenceCount(kept, i, silence_count) ==
  IF i > Len(kept) THEN silence_count
  ELSE SilenceCount(kept, i + 1,
                    IF AboveSilence(kept[i]) THEN 0 ELSE silence_count + 1)

\* One iteration of the second loop of render_note, given the block r that
\* FmCore::process returned.
TailBlock(st, limit, silence_threshold, r) ==
  [ core              |-> r.core,
    samples_generated |-> st.samples_generated + Len(TailKept(st, limit, r)),
    output            |-> st.output \o TailKept(st, limit, r),
    silence_count     |-> SilenceCount(TailKept(st, limit, r), 1, st.silence_count),
    tail_blocks       |-> st.tail_blocks + 1,
    silence_stop      |->
      /\ \A i \in 1..Len(TailKept(st, limit, r)) : ~AboveSilence(r.output[i])
      /\ SilenceCount(TailKept(st, limit, r), 1, st.silence_count)
           > silence_threshold ]

\* The second loop of render_note, run to its end: blocks are rendered while
\* samples_generated < max_samples, and the loop stops early after a block
\* without audio once silence_count exceeds silence_threshold.
RECURSIVE TailLoop(_, _, _, _)
TailLoop(st, limit, silence_threshold, mult) ==
  IF st.silence_stop \/ st.samples_generated >= limit THEN st
  ELSE TailLoop(TailBlock(st, limit, silence_threshold, CoreProcess(st.core, mult)),
                limit, silence_threshold, mult)

\* The model's variables of an FmCore driven directly, before any call.
InitPolyIdle ==
  /\ coreNotes = 0
  /\ coreBlocks = 0
  /\ coreLast = [ active_voices |-> 0, mix |-> ZeroBlock, output |-> ZeroBlock,
                  voice_output |-> << >>, routed |-> << >>, algorithm |-> << >> ]
  /\ coreTriggered = << >>

\* The model's variables of Patch::generate_samples before a call.
InitDriverIdle ==
  /\ voice = "none"
  /\ n_samples = 0
  /\ remaining = 0
  /\ output_len = 0
  /\ consecutive_silent_samples = 0
  /\ threshold_reached_at = 0
  /\ stopped_on = "none"

\* The model's variables of a kernel call before there is one.
InitKernelIdle ==
  /\ kernelPc = "idle"
  /\ kernelChecks = FALSE
  /\ kernelArgs = << >>
  /\ kernelLoop = << >>

\* The model's variables of Algorithms::compile before it is called.
InitAlgIdle ==
  /\ algPc = "idle"
  /\ algAlgorithm = 0
  /\ algI = 0
  /\ algCalls = << >>
  /\ algRendered = << >>

\* The model's variables of the patch conversions before any of them is called.
InitSysexIdle ==
  /\ sysexStep = "idle"
  /\ sysexPatch = << >>
  /\ sysexPacked = << >>
  /\ sysexData = << >>
  /\ sysexParsed = << >>
  /\ sysexVoice = << >>

\* The model's variables of Dx7Synth before Dx7Synth::new.
InitSynthIdle ==
  /\ fm_core = CoreNew(1)
  /\ current_patch = 0
  /\ max_length_samples = 0
  /\ pc = "idle"
  /\ call = [ midi_note |-> 0, velocity |-> 0, length_ms |-> 0 ]
  /\ max_samples = 0
  /\ samples_generated = 0
  /\ output_samples = << >>
  /\ result = "none"
  /\ renders = << >>
  /\ loads = 0

----------------------------------------------------------------------------
(* SpecEnv: one operator envelope driven through its public interface      *)

\* Envelope parameters as Dx7Note::apply_patch hands them to Env::init:
\* rates R1..R4, levels L1..L4, the scaled output level and the rate scaling.
ENV_PARAMS ==
  << [ rates |-> <<99, 99, 99, 99>>, levels |-> <<99, 90, 80, 0>>,
       outlevel |-> 3456, rate_scaling |-> 0 ],
     [ rates |-> <<99, 99, 99, 70>>, levels |-> <<99, 99, 99, 99>>,
       outlevel |-> 4064, rate_scaling |-> 0 ],
     [ rates |-> <<99, 99, 99, 80>>, levels |-> <<99, 50, 0, 0>>,
       outlevel |-> 3456, rate_scaling |-> 0 ],
     [ rates |-> <<99, 99, 99, 32>>, levels |-> <<99, 99, 99, 0>>,
       outlevel |-> 4064, rate_scaling |-> 0 ],
     [ rates |-> <<99, 99, 99, 99>>, levels |-> <<99, 50, 20, 90>>,
       outlevel |-> 3456, rate_scaling |-> 2 ],
     [ rates |-> <<99, 99, 99, 90>>, levels |-> <<0, 0, 0, 0>>,
       outlevel |-> 0, rate_scaling |-> 0 ],
     [ rates |-> <<95, 99, 99, 99>>, levels |-> <<0, 99, 99, 0>>,
       outlevel |-> 3456, rate_scaling |-> 0 ] >>

\* Key releases one envelope run may see.
MaxKeyOffs == 2

\* A key pressed again during a release arrives within this many blocks of the
\* key-off, or after the release has finished.
MaxRetriggerBlocks == 3

\* The driver's safety limit in samples: sample_rate * 10.
SafetyCapSamples(sr) == sr * 10

\* Blocks of N samples that cover the safety limit.
SafetyCapBlocks(sr) == (SafetyCapSamples(sr) + N - 1) \div N

InitEnvIdle ==
  /\ env = EnvNew
  /\ envPatch = 0
  /\ envOffs = 0
  /\ envRelBlocks = 0

\* FmCore::init_sample_rate, then Env::new.
InitEnv ==
  /\ sample_rate \in SAMPLE_RATES
  /\ sr_multiplier = SrMultiplier(sample_rate)
  /\ InitEnvIdle
  /\ InitSysexIdle
  /\ InitAlgIdle
  /\ InitKernelIdle
  /\ InitSynthIdle
  /\ InitPolyIdle
  /\ InitDriverIdle

\* Env::init with one of the parameter sets.
EnvInitCall(p) ==
  /\ envPatch = 0
  /\ envPatch' = p
  /\ env' = EnvInit(env, ENV_PARAMS[p].rates, ENV_PARAMS[p].levels,
                    ENV_PARAMS[p].outlevel, ENV_PARAMS[p].rate_scaling,
                    sr_multiplier)
  /\ envRelBlocks' = 0
  /\ UNCHANGED << sample_rate, sr_multiplier, algVars, sysexVars, envOffs, synthVars, polyVars,
                  driverVars >>

\* Env::keydown(true)
EnvKeyOn ==
  /\ envPatch # 0
  /\ env.down \/ env.ix = 4 \/ envRelBlocks <= MaxRetriggerBlocks
  /\ env' = EnvKeydown(env, TRUE, sr_multiplier)
  /\ envRelBlocks' = 0
  /\ UNCHANGED << sample_rate, sr_multiplier, algVars, sysexVars, envPatch, envOffs, synthVars,
                  polyVars,
                  driverVars >>

\* Env::keydown(false); a call on a released envelope changes nothing.
EnvKeyOff ==
  /\ envPatch # 0
  /\ envOffs < MaxKeyOffs
  /\ envOffs' = IF env.down THEN envOffs + 1 ELSE envOffs
  /\ env' = EnvKeydown(env, FALSE, sr_multiplier)
  /\ envRelBlocks' = IF env.down THEN 0 ELSE envRelBlocks
  /\ UNCHANGED << sample_rate, sr_multiplier, algVars, sysexVars, envPatch, synthVars, polyVars,
                  driverVars >>

\* Env::get_sample, called once per block of N samples.
EnvGetSampleCall ==
  /\ env' = EnvGetSample(env, sr_multiplier)
  /\ envRelBlocks' = IF ~env.down /\ env.ix < 4
                       THEN Min(envRelBlocks + 1, SafetyCapBlocks(sample_rate))
                       ELSE envRelBlocks
  /\ UNCHANGED << sample_rate, sr_multiplier, algVars, sysexVars, envPatch, envOffs, synthVars,
                  polyVars,
                  driverVars >>

NextEnv ==
  \/ \E p \in 1..Len(ENV_PARAMS) : EnvInitCall(p)
  \/ EnvKeyOn
  \/ EnvKeyOff
  \/ EnvGetSampleCall

SpecEnv == InitEnv /\ [][NextEnv]_vars

\* The block loop keeps calling get_sample: the call is always enabled.
SpecEnvFair == SpecEnv /\ WF_vars(EnvGetSampleCall)

----------------------------------------------------------------------------
(* Claims about the envelope                                               *)

\* C7: while the key is held, an envelope that has reached L3 (stage index 3,
\* the level of L3) keeps that level, and the envelope never reaches the
\* finished stage (index 4) before key-off.
C7_HeldEnvelopeSustains ==
  (envPatch # 0 /\ env.down) =>
    /\ env.ix < 4
    /\ env.ix = 3 => env.level = EnvTarget(env, 2)

\* C20: once the envelope has been initialised, every level get_sample
\* returns is at least the floor 16 << 16.
C20_LevelAboveFloor ==
  [][ (envPatch # 0 /\ EnvGetSampleCall) => env'.level >= 16 * 65536 ]_vars

C11_KeyEdgesSetStage ==
  [][ /\ (~env.down /\ env'.down) => env'.ix = 0
      /\ (env.down /\ ~env'.down) => env'.ix = 3 ]_vars

\* The key went up, down again during the release, and has just gone up a
\* second time.
C11_Witness ==
  /\ envOffs = 2
  /\ ~env.down
  /\ env.ix = 3
  /\ envRelBlocks = 0

----------------------------------------------------------------------------
(* Spec: one Dx7Synth, load_patch and render_note                          *)

\* (sample_rate * 0.01) as usize: the silence threshold of the tail loop.
SilenceThreshold(sr) == sr \div 100

\* Dx7Synth::new(sample_rate, MAX_LENGTH_MS / 1000)
Init ==
  /\ sample_rate \in SAMPLE_RATES
  /\ sr_multiplier = SrMultiplier(sample_rate)
  /\ InitEnvIdle
  /\ InitSysexIdle
  /\ InitAlgIdle
  /\ InitKernelIdle
  /\ InitPolyIdle
  /\ InitDriverIdle
  /\ fm_core = CoreNew(1)
  /\ current_patch = 0
  /\ max_length_samples = LengthSamples(sample_rate, MAX_LENGTH_MS)
  /\ pc = "idle"
  /\ call = [ midi_note |-> 0, velocity |-> 0, length_ms |-> 0 ]
  /\ max_samples = 0
  /\ samples_generated = 0
  /\ output_samples = << >>
  /\ result = "none"
  /\ renders = << >>
  /\ loads = 0

\* Dx7Synth::load_patch
SynthLoadPatch(p) ==
  /\ pc = "idle"
  /\ loads < MaxLoads
  /\ loads' = loads + 1
  /\ fm_core' = ApplyPatchToCore(fm_core, p, sr_multiplier)
  /\ current_patch' = p
  /\ UNCHANGED << sample_rate, sr_multiplier, algVars, sysexVars, envVars, polyVars, driverVars,
                  max_length_samples, pc, call, max_samples, samples_generated,
                  output_samples, result, renders >>

\* render_note with the note-on ahead of the check for a loaded patch.
RenderCallLateCheck(midi_note, velocity, length_ms) ==
  /\ pc = "idle"
  /\ Len(renders) < MaxRenders
  /\ IF current_patch = 0 \/ midi_note > 127 \/ velocity > 127
       THEN /\ result' = "err"
            /\ fm_core' = IF midi_note <= 127 /\ velocity <= 127
                             THEN CoreNoteOn(fm_core, midi_note, velocity, 0,
                                             sr_multiplier)
                             ELSE fm_core
            /\ UNCHANGED << pc, call, max_samples, samples_generated,
                            output_samples >>
       ELSE /\ result' = "none"
            /\ call' = [ midi_note |-> midi_note, velocity |-> velocity,
                         length_ms |-> length_ms ]
            /\ max_samples' = Min(LengthSamples(sample_rate, length_ms),
                                  max_length_samples)
            /\ fm_core' = CoreNoteOn(fm_core, midi_note, velocity, 0, sr_multiplier)
            /\ samples_generated' = 0
            /\ output_samples' = << >>
            /\ pc' = "gate"
  /\ UNCHANGED << sample_rate, sr_multiplier, algVars, sysexVars, envVars, polyVars,
                  driverVars, current_patch,
                  max_length_samples, renders, loads >>

\* Dx7Synth::render_note up to the first loop: the three argument checks, then
\* max_samples and the note-on.
RenderCall(midi_note, velocity, length_ms) ==
  /\ pc = "idle"
  /\ Len(renders) < MaxRenders
  /\ IF current_patch = 0 \/ midi_note > 127 \/ velocity > 127
       THEN /\ result' = "err"
            /\ UNCHANGED << fm_core, pc, call, max_samples, samples_generated,
                            output_samples >>
       ELSE /\ result' = "none"
            /\ call' = [ midi_note |-> midi_note, velocity |-> velocity,
                         length_ms |-> length_ms ]
            /\ max_samples' = Min(LengthSamples(sample_rate, length_ms),
                                  max_length_samples)
            /\ fm_core' = CoreNoteOn(fm_core, midi_note, velocity, 0, sr_multiplier)
            /\ samples_generated' = 0
            /\ output_samples' = << >>
            /\ pc' = "gate"
  /\ UNCHANGED << sample_rate, sr_multiplier, algVars, sysexVars, envVars, polyVars,
                  driverVars, current_patch,
                  max_length_samples, renders, loads >>

\* The first loop of render_note after its call of FmCore::process, which
\* returned r: the samples of the block that fit are appended.
GateBlockDone(r) ==
  /\ fm_core' = r.core
  /\ output_samples' =
       output_samples \o SubSeq(r.output, 1, Min(max_samples - samples_generated, N))
  /\ samples_generated' = samples_generated + Min(max_samples - samples_generated, N)

\* One iteration of the first loop of render_note.
RenderBlock ==
  /\ pc = "gate"
  /\ samples_generated < max_samples
  /\ GateBlockDone(CoreProcess(fm_core, sr_multiplier))
  /\ UNCHANGED << sample_rate, sr_multiplier, algVars, sysexVars, envVars, polyVars,
                  driverVars, current_patch,
                  max_length_samples, pc, call, max_samples, result, renders, loads >>

\* The two assertions of render_note on the buffer: "ok" when both hold.
RenderResult(output) ==
  IF Len(output) < Min(LengthSamples(sample_rate, call.length_ms), max_samples)
    THEN "panic"
    ELSE IF \E i \in DOMAIN output : NonZero(output[i]) THEN "ok" ELSE "panic"

\* The end of render_note after its tail loop, which left t.
RenderReturn(t) ==
  /\ fm_core' = t.core
  /\ output_samples' = t.output
  /\ samples_generated' = t.samples_generated
  /\ result' = RenderResult(t.output)
  /\ renders' = Append(renders,
                  [ patch |-> current_patch, midi_note |-> call.midi_note,
                    velocity |-> call.velocity, length_ms |-> call.length_ms,
                    result |-> RenderResult(t.output), output |-> t.output,
                    tail_blocks |-> t.tail_blocks,
                    silence_stop |-> t.silence_stop ])

\* The rest of render_note once the first loop has ended: note-off, the tail
\* loop, the two assertions and the return.
RenderFinish ==
  /\ pc = "gate"
  /\ samples_generated >= max_samples
  /\ RenderReturn(
       TailLoop([ core |-> CoreNoteOff(fm_core, call.midi_note, 0, sr_multiplier),
                  samples_generated |-> samples_generated,
                  output |-> output_samples, silence_count |-> 0,
                  tail_blocks |-> 0, silence_stop |-> FALSE ],
                max_samples, SilenceThreshold(sample_rate), sr_multiplier))
  /\ pc' = "idle"
  /\ UNCHANGED << sample_rate, sr_multiplier, algVars, sysexVars, envVars, polyVars,
                  driverVars, current_patch,
                  max_length_samples, call, max_samples, loads >>

Next ==
  \/ \E p \in SYNTH_PATCHES : SynthLoadPatch(p)
  \/ \E midi_note \in MIDI_NOTES, velocity \in VELOCITIES, length_ms \in NOTE_LENGTHS_MS :
       RenderCall(midi_note, velocity, length_ms)
  \/ RenderBlock
  \/ RenderFinish

Spec == Init /\ [][Next]_vars

----------------------------------------------------------------------------
(* Claims about Dx7Synth::render_note                                      *)

\* C2: every sample of a buffer render_note builds or returns lies in [-1, 1]:
\* the i32 sample x stands for the f32 value x / 2^23, which is finite and exact
\* for |x| <= 2^23.
C2_SamplesInRange ==
  /\ \A i \in DOMAIN output_samples :
       output_samples[i] >= -8388608 /\ output_samples[i] <= 8388608
  /\ \A k \in DOMAIN renders : \A i \in DOMAIN renders[k].output :
       renders[k].output[i] >= -8388608 /\ renders[k].output[i] <= 8388608

\* A returned buffer in which the limiter was engaged at both ends of the range.
C2_Witness ==
  \E k \in DOMAIN renders :
    /\ renders[k].result = "ok"
    /\ \E i \in DOMAIN renders[k].output : renders[k].output[i] = 8388607
    /\ \E i \in DOMAIN renders[k].output : renders[k].output[i] = -8388608

\* C3: two calls of render_note with the same patch, note, velocity and length
\* return the same buffer, whatever was rendered on the synth before.
C3_Deterministic ==
  \A j, k \in DOMAIN renders :
    ( /\ renders[j].result = "ok" /\ renders[k].result = "ok"
      /\ renders[j].patch = renders[k].patch
      /\ renders[j].midi_note = renders[k].midi_note
      /\ renders[j].velocity = renders[k].velocity
      /\ renders[j].length_ms = renders[k].length_ms )
    => renders[j].output = renders[k].output

\* C4: render_note on the patch whose operators are all silent returns Ok with
\* a buffer of zeros.
C4_SilentPatchRendersOk ==
  \A k \in DOMAIN renders :
    renders[k].patch = 2 =>
      /\ renders[k].result = "ok"
      /\ \A i \in DOMAIN renders[k].output : renders[k].output[i] = 0

\* C14: a call of render_note without a loaded patch, with a MIDI note above
\* 127 or with a velocity above 127 returns an error and leaves the core, and
\* so every voice, as it was.
C14_InvalidCallRejected ==
  [][ \A midi_note \in MIDI_NOTES, velocity \in VELOCITIES,
         length_ms \in NOTE_LENGTHS_MS :
        ( /\ RenderCall(midi_note, velocity, length_ms)
          /\ (current_patch = 0 \/ midi_note > 127 \/ velocity > 127) )
          => (result' = "err" /\ fm_core' = fm_core /\ pc' = "idle") ]_vars

\* A call was rejected on a synth that has a patch loaded and has rendered a
\* note before.
C14_Witness ==
  /\ result = "err"
  /\ current_patch # 0
  /\ Len(renders) = 1

\* C15: a call of render_note whose note length is not positive or is longer
\* than the safety cap (max_length_seconds) is rejected: no such call returns
\* a buffer.
C15_InvalidDurationRejected ==
  \A k \in DOMAIN renders :
    renders[k].result = "ok" =>
      /\ renders[k].length_ms > 0
      /\ renders[k].length_ms <= MAX_LENGTH_MS

C28_TargetFitsI32 ==
  \A v \in DOMAIN fm_core.voices, k \in 1..6 :
    LET e == fm_core.voices[v].note.operators[k].env
    IN  /\ e.outlevel <= 20000
        /\ \A ix \in 0..3 :
             Shl(Shr(ScaleOutlevel(e.levels[ix + 1]), 1), 6) + e.outlevel - 4256
               <= Shr(I32_MAX, 16)

\* A note was started with an operator at output level 99: its envelope has
\* the outlevel 3808 or more and is on its way to the target of its stage.
C28_Witness ==
  \E v \in DOMAIN fm_core.voices, k \in 1..6 :
    LET e == fm_core.voices[v].note.operators[k].env
    IN  /\ e.outlevel >= 3808
        /\ e.ix < 4
        /\ e.targetlevel = EnvTarget(e, e.ix)
        /\ e.targetlevel > Shl(3000, 16)

\* C9: a call of render_note that returns has rendered past the note-off until
\* it detected trailing silence or the buffer reached the safety cap.
C9_TailRendered ==
  \A k \in DOMAIN renders :
    renders[k].result = "ok" =>
      \/ renders[k].silence_stop
      \/ Len(renders[k].output) >= max_length_samples

----------------------------------------------------------------------------
(* SpecCore: one FmCore with two voices, driven through its interface      *)

\* Voices of the core, as in test_polyphony.
CORE_VOICES == 2

\* The patches load_patch is called with.
CORE_PATCHES == { 1, 3, 7, 8 }

\* MIDI notes and the velocity of the note_on calls.
CORE_NOTES == { 60, 72 }

CORE_VELOCITY == 100

\* Calls of load_patch, of note_on and of process in one run.
MaxCoreLoads == 1

MaxCoreNotes == 3

MaxCoreBlocks == 2

\* FmCore::new(CORE_VOICES) after init_sample_rate.
InitCore ==
  /\ sample_rate \in SAMPLE_RATES
  /\ sr_multiplier = SrMultiplier(sample_rate)
  /\ InitEnvIdle
  /\ InitSysexIdle
  /\ InitAlgIdle
  /\ InitKernelIdle
  /\ InitDriverIdle
  /\ InitPolyIdle
  /\ fm_core = CoreNew(CORE_VOICES)
  /\ current_patch = 0
  /\ max_length_samples = 0
  /\ pc = "idle"
  /\ call = [ midi_note |-> 0, velocity |-> 0, length_ms |-> 0 ]
  /\ max_samples = 0
  /\ samples_generated = 0
  /\ output_samples = << >>
  /\ result = "none"
  /\ renders = << >>
  /\ loads = 0

\* FmCore::load_patch with the image of one of the patches.
CoreLoadPatchCall(p) ==
  /\ loads < MaxCoreLoads
  /\ loads' = loads + 1
  /\ current_patch' = p
  /\ fm_core' = CoreLoadPatch(fm_core, ToData(PATCHES[p]), sr_multiplier)
  /\ UNCHANGED << sample_rate, sr_multiplier, algVars, sysexVars, envVars, polyVars, driverVars,
                  max_length_samples, pc, call, max_samples, samples_generated,
                  output_samples, result, renders >>

\* FmCore::note_on
CoreNoteOnCall(midi_note) ==
  /\ coreNotes < MaxCoreNotes
  /\ coreNotes' = coreNotes + 1
  /\ fm_core' = CoreNoteOn(fm_core, midi_note, CORE_VELOCITY, 0, sr_multiplier)
  /\ coreTriggered' = [ v \in DOMAIN fm_core.voices |->
                          IF v = FindVoiceForNote(fm_core) THEN coreNotes + 1
                          ELSE IF v \in DOMAIN coreTriggered THEN coreTriggered[v]
                          ELSE 0 ]
  /\ UNCHANGED << sample_rate, sr_multiplier, algVars, sysexVars, envVars, driverVars, coreBlocks,
                  coreLast, current_patch, max_length_samples, pc, call, max_samples,
                  samples_generated, output_samples, result, renders, loads >>

\* FmCore::note_off for a note that is sounding.
CoreNoteOffCall(midi_note) ==
  /\ \E v \in DOMAIN fm_core.voices :
       /\ fm_core.voices[v].midi_note = midi_note
       /\ NoteIsActive(fm_core.voices[v].note)
       /\ fm_core.voices[v].note.operators[1].env.down
  /\ fm_core' = CoreNoteOff(fm_core, midi_note, 0, sr_multiplier)
  /\ UNCHANGED << sample_rate, sr_multiplier, algVars, sysexVars, envVars, driverVars, polyVars,
                  current_patch, max_length_samples, pc, call, max_samples,
                  samples_generated, output_samples, result, renders, loads >>

\* What voice v computes for the coming block when it is handed an empty
\* buffer of its own.
VoiceAlone(core, v, mult) == NoteProcess(core.voices[v].note, ZeroBlock, mult)

\* The record kept of one FmCore::process call: r is what the call returned,
\* alone[v] what voice v computed on its own.
CoreObserved(core, r, alone) ==
  [ active_voices |-> r.active_voices,
    mix           |-> r.mix,
    output        |-> r.output,
    voice_output  |-> [ v \in DOMAIN core.voices |-> alone[v].output ],
    routed        |-> [ v \in DOMAIN core.voices |-> alone[v].routed ],
    algorithm     |-> [ v \in DOMAIN core.voices |-> core.voices[v].note.algorithm ] ]

\* FmCore::process after the call returned r.
CoreProcessDone(r) ==
  /\ fm_core' = r.core
  /\ coreLast' = CoreObserved(fm_core, r,
                   [ v \in DOMAIN fm_core.voices |->
                       VoiceAlone(fm_core, v, sr_multiplier) ])

\* FmCore::process
CoreProcessCall ==
  /\ coreBlocks < MaxCoreBlocks
  /\ coreBlocks' = coreBlocks + 1
  /\ CoreProcessDone(CoreProcess(fm_core, sr_multiplier))
  /\ UNCHANGED << sample_rate, sr_multiplier, algVars, sysexVars, envVars, driverVars, coreNotes,
                  coreTriggered, current_patch, max_length_samples, pc, call, max_samples,
                  samples_generated, output_samples, result, renders, loads >>

NextCore ==
  \/ \E p \in CORE_PATCHES : CoreLoadPatchCall(p)
  \/ \E midi_note \in CORE_NOTES : CoreNoteOnCall(midi_note)
  \/ \E midi_note \in CORE_NOTES : CoreNoteOffCall(midi_note)
  \/ CoreProcessCall

SpecCore == InitCore /\ [][NextCore]_vars

----------------------------------------------------------------------------
(* Claims about FmCore::process and Dx7Note::process                       *)

\* Element-wise sum of a sequence of blocks.
RECURSIVE SumBlocks(_)
SumBlocks(blocks) ==
  IF blocks = << >> THEN ZeroBlock ELSE AddBlocks(Head(blocks), SumBlocks(Tail(blocks)))

\* C5: when several voices are active the block FmCore::process mixes, before
\* volume and limiting, is the sum of what each active voice computed.
C5_MixIsSumOfVoices ==
  coreLast.active_voices >= 2 => coreLast.mix = SumBlocks(coreLast.voice_output)

\* C6: in algorithm 32 every operator that sounds writes its block to the
\* output bus (bus 0), and no operator reads a scratch bus.
C6_Algorithm32AllCarriers ==
  \A v \in DOMAIN coreLast.routed :
    coreLast.algorithm[v] = 32 =>
      \A k \in 1..6 :
        /\ coreLast.routed[v][k] \in { -1, 0 }
        /\ FlagInbus(ALGORITHMS[32][k]) = 0

\* C18: a note_on call that finds no voice free takes the voice that was
\* triggered earliest.
C18_StealsEarliestTriggered ==
  [][ \A v \in DOMAIN fm_core.voices :
        ( /\ coreNotes' = coreNotes + 1
          /\ \A w \in DOMAIN fm_core.voices : ~VoiceIsFree(fm_core.voices[w])
          /\ coreTriggered'[v] = coreNotes' )
          => \A w \in DOMAIN fm_core.voices : coreTriggered[v] <= coreTriggered[w] ]_vars

C21_SkippedOnlyIfBothGainsLow ==
  [][ coreBlocks' = coreBlocks + 1 =>
        \A v \in DOMAIN fm_core.voices, k \in 1..6 :
          ( /\ NoteIsActive(fm_core.voices[v].note)
            /\ coreLast'.routed[v][k] = -1 )
            => /\ OpGain(fm_core.voices[v].note.operators[k].env.level) < LEVEL_THRESH
               /\ OpGain(fm_core'.voices[v].note.operators[k].env.level) < LEVEL_THRESH
    ]_vars

\* C22: in the coming block of a sounding voice, an audible operator that
\* writes to a bus whose has_contents flag is false leaves its own block on
\* the bus, whatever its ADD flag; its block is summed into the bus exactly
\* when the flag is true and ADD is set.
C22_FirstWriteReplaces ==
  LET BusOf(s, b) == IF b = 0 THEN s.output ELSE s.bus[b]
      WriteOk(before, after, k, outbus, add, written) ==
        BusOf(after, outbus) =
          IF before.has[outbus + 1] /\ add
            THEN AddBlocks(BusOf(before, outbus), written)
            ELSE written
      StepOk(before, after, k) ==
        after.routed[k] # -1 =>
          WriteOk(before, after, k, FlagOutbus(OpFlags(before.note, k)),
                  FlagAdd(OpFlags(before.note, k)),
                  OpKernel(before, k,
                           OpGain(after.note.operators[k].env.level)).out)
      RECURSIVE LoopOk(_, _)
      StepThenLoop(before, after, k) ==
        StepOk(before, after, k) /\ LoopOk(after, k + 1)
      LoopOk(st, k) ==
        IF st.has = st.has /\ k > 6 THEN TRUE
        ELSE StepThenLoop(st, NoteProcessOp(st, k, sr_multiplier), k)
  IN  \A v \in DOMAIN fm_core.voices :
        NoteIsActive(fm_core.voices[v].note) =>
          LoopOk([ note |-> fm_core.voices[v].note, output |-> ZeroBlock,
                   bus |-> << ZeroBlock, ZeroBlock >>,
                   has |-> << TRUE, FALSE, FALSE >>,
                   routed |-> [ j \in 1..6 |-> -1 ] ], 1)

\* A sounding voice in which an audible operator with the ADD flag is about to
\* write to a scratch bus that is flagged empty but still holds the block of
\* an earlier operator.
C22_Witness ==
  /\ current_patch = 8
  /\ \E v \in DOMAIN fm_core.voices :
       /\ NoteIsActive(fm_core.voices[v].note)
       /\ VoiceAlone(fm_core, v, sr_multiplier).routed = <<1, -1, 2, 1, -1, 0>>

\* C17: with a patch of feedback 0 loaded, the block the feedback operator of
\* a voice computes in the coming process call is the block of the PURE
\* kernel for the operator's phase, frequency and gain, whatever the
\* algorithm and whatever the buses hold.
C17_ZeroFeedbackIsPure ==
  (current_patch # 0 /\ PATCHES[current_patch].global.feedback = 0) =>
    \A v \in DOMAIN fm_core.voices, k \in 1..6 :
      LET nt   == fm_core.voices[v].note
          gain == OpGain(EnvGetSample(nt.operators[k].env, sr_multiplier).level)
      IN  FlagFeedback(OpFlags(nt, k)) =>
            \A has \in { <<TRUE, FALSE, FALSE>>, <<TRUE, TRUE, TRUE>> } :
              OpKernel([ note |-> nt, has |-> has,
                         bus |-> << ZeroBlock, ZeroBlock >> ], k, gain).out
                = KernelComputePure(nt.operators[k].phase, nt.operators[k].freq,
                                    gain, gain)

\* A voice sounds a patch of feedback 0 whose feedback operator is audible,
\* after a block that left the feedback operator in mid-cycle.
C17_Witness ==
  /\ current_patch = 3
  /\ coreBlocks >= 1
  /\ \E v \in DOMAIN fm_core.voices, k \in 1..6 :
       LET nt == fm_core.voices[v].note
       IN  /\ NoteIsActive(nt)
           /\ FlagFeedback(OpFlags(nt, k))
           /\ nt.operators[k].phase # 0
           /\ OpGain(EnvGetSample(nt.operators[k].env, sr_multiplier).level)
                >= LEVEL_THRESH

----------------------------------------------------------------------------
(* SpecDriver: Patch::generate_samples (lib.rs), the render driver         *)

\* lib.rs MAX_BLOCK_SIZE
MAX_BLOCK_SIZE == 24

\* Sample rates and durations (milliseconds) the driver is called with.
DRIVER_SAMPLE_RATES == { 1000 }

DURATIONS_MS == { 0, 30, 50, 10001 }

\* n_samples = duration.as_millis() * (sample_rate / 1000)
NSamples(sr, ms) == ms * (sr \div 1000)

\* silence_duration_samples = (sample_rate * 100) / 1000
SilenceDurationSamples(sr) == (sr * 100) \div 1000

\* What the driver sees of one block the voice rendered: for each sample,
\* whether |sample| < silence_threshold.
LoudBlock == [ i \in 1..MAX_BLOCK_SIZE |-> FALSE ]

SilentBlock == [ i \in 1..MAX_BLOCK_SIZE |-> TRUE ]

\* Silence with sound at one sample in the middle of the block.
BurstBlock == [ i \in 1..MAX_BLOCK_SIZE |-> i # 13 ]

\* The voices the driver renders, by what they do once the gate is off:
\*   "sustain"  sounds for ever (a final envelope level above zero)
\*   "decay"    sounds for two more blocks and is silent from then on
\*   "silent"   is silent from the start
\*   "tremor"   a quiet slow oscillation: four blocks of silence and one with
\*              sound at one sample, again and again
VOICES == { "sustain", "decay", "silent", "tremor" }

\* Block k (from 0) the voice renders after gate-off.
VoiceBlock(v, k) ==
  CASE v = "sustain" -> LoudBlock
    [] v = "decay"   -> IF k < 2 THEN LoudBlock ELSE SilentBlock
    [] v = "silent"  -> SilentBlock
    [] OTHER         -> IF k % 5 = 4 THEN BurstBlock ELSE SilentBlock

\* consecutive_silent_samples after the first i samples of a block.
RECURSIVE SilentAfter(_, _, _)
SilentAfter(block, i, count) ==
  IF i = 0 THEN count
  ELSE IF block[i] THEN SilentAfter(block, i - 1, count) + 1 ELSE 0

\* The output length at which the count first reaches the threshold inside
\* this block, 0 when it does not.
ReachedIn(block, count, threshold, len) ==
  LET hits == { i \in 1..MAX_BLOCK_SIZE : SilentAfter(block, i, count) >= threshold }
  IN  IF hits = {} THEN 0 ELSE len + (CHOOSE i \in hits : \A j \in hits : i <= j)

\* generate_samples at its entry.
InitDriver ==
  /\ sample_rate \in DRIVER_SAMPLE_RATES
  /\ sr_multiplier = SrMultiplier(sample_rate)
  /\ InitEnvIdle
  /\ InitSysexIdle
  /\ InitAlgIdle
  /\ InitKernelIdle
  /\ InitSynthIdle
  /\ InitPolyIdle
  /\ voice \in VOICES
  /\ \E ms \in DURATIONS_MS : n_samples = NSamples(sample_rate, ms)
  /\ remaining = n_samples
  /\ output_len = 0
  /\ consecutive_silent_samples = 0
  /\ threshold_reached_at = 0
  /\ stopped_on = "none"

\* One iteration of the first loop: a block of at most MAX_BLOCK_SIZE samples
\* is rendered with the gate on and appended.
GateBlock ==
  /\ stopped_on = "none"
  /\ remaining > 0
  /\ output_len' = output_len + Min(remaining, MAX_BLOCK_SIZE)
  /\ remaining' = remaining - Min(remaining, MAX_BLOCK_SIZE)
  /\ UNCHANGED << sample_rate, sr_multiplier, algVars, sysexVars, envVars, synthVars, polyVars,
                  voice,
                  n_samples, consecutive_silent_samples, threshold_reached_at,
                  stopped_on >>

\* One iteration of the second loop: the block the voice renders with the gate
\* off is counted and appended, then the two exits are tested.
ReleaseBlock ==
  /\ stopped_on = "none"
  /\ remaining = 0
  /\ LET block == VoiceBlock(voice, (output_len - n_samples) \div MAX_BLOCK_SIZE)
         count == SilentAfter(block, MAX_BLOCK_SIZE, consecutive_silent_samples)
         len   == output_len + MAX_BLOCK_SIZE
         silence_duration_samples == SilenceDurationSamples(sample_rate)
     IN  /\ consecutive_silent_samples' = count
         /\ threshold_reached_at' =
              IF threshold_reached_at # 0 THEN threshold_reached_at
              ELSE ReachedIn(block, consecutive_silent_samples,
                             silence_duration_samples, output_len)
         /\ IF count >= silence_duration_samples
              THEN /\ output_len' = Max(len - (count - silence_duration_samples), 0)
                   /\ stopped_on' = "silence"
              ELSE /\ output_len' = len
                   /\ stopped_on' = IF len > sample_rate * 10 THEN "cap" ELSE "none"
  /\ UNCHANGED << sample_rate, sr_multiplier, algVars, sysexVars, envVars, synthVars, polyVars,
                  voice,
                  n_samples, remaining >>

NextDriver ==
  \/ GateBlock
  \/ ReleaseBlock

SpecDriver == InitDriver /\ [][NextDriver]_vars

----------------------------------------------------------------------------
(* Claims about the render driver                                          *)

\* C1: the buffer generate_samples returns is never longer than the safety cap
\* of 10 seconds of samples.
C1_BufferWithinCap ==
  stopped_on # "none" => output_len <= SafetyCapSamples(sample_rate)

\* C10: when generate_samples stops on trailing silence, the buffer it returns
\* ends at the sample at which the count of consecutive silent samples since
\* gate-off first reached the threshold.
C10_EndsAtFirstThreshold ==
  stopped_on = "silence" => output_len = threshold_reached_at


----------------------------------------------------------------------------
(* SpecSysex: the conversions between patches and bytes (sysex.rs, patch.rs) *)

\* Well-formed operators: every field inside its documented range.
SYSEX_OPS ==
  { [ PatchOp(<<99, 80, 60, 40>>, <<99, 90, 80, 0>>, ol, coarse, detune)
        EXCEPT !.level_scaling_rc = rc, !.velocity_sens = vs, !.osc_mode = mode ] :
      ol \in { 0, 99 }, coarse \in { 0, 1, 31 }, detune \in { 0, 7, 14 },
      rc \in { 0, 3 }, vs \in { 0, 7 }, mode \in { 0, 1 } }

\* Well-formed patches: six equal operators and global parameters in range.
SYSEX_PATCHES ==
  { [ operators |-> [ k \in 1..6 |-> op ],
      global |-> [ GlobalZero EXCEPT !.algorithm = alg, !.feedback = 7,
                                     !.lfo_speed = 35, !.lfo_waveform = 5,
                                     !.pitch_mod_sens = 3, !.transpose = 24 ] ] :
      op \in SYSEX_OPS, alg \in { 0, 31 } }

\* Byte values of the packed voices read from a bank.
PACKED_BYTES == { 0, 99, 127, 128, 255 }

\* A packed voice of 128 bytes: the 102 operator bytes are b, the bytes of the
\* global parameters and the name are c.
PackedVoice(b, c) == [ i \in 1..128 |-> IF i <= 102 THEN b ELSE c ]

InitSysex ==
  /\ sample_rate \in DRIVER_SAMPLE_RATES
  /\ sr_multiplier = SrMultiplier(sample_rate)
  /\ InitEnvIdle
  /\ InitSysexIdle
  /\ InitAlgIdle
  /\ InitKernelIdle
  /\ InitSynthIdle
  /\ InitPolyIdle
  /\ InitDriverIdle

\* Dx7Patch::to_data on a well-formed patch.
SysexToData(p) ==
  /\ sysexStep = "idle"
  /\ sysexStep' = "packed"
  /\ sysexPatch' = p
  /\ sysexData' = ToData(p)
  /\ UNCHANGED << sample_rate, sr_multiplier, algVars, envVars, synthVars, polyVars,
                  driverVars, sysexPacked, sysexParsed, sysexVoice >>

\* Dx7Patch::from_data on the bytes to_data returned.
SysexFromData ==
  /\ sysexStep = "packed"
  /\ sysexStep' = "parsed"
  /\ sysexParsed' = FromData(sysexData)
  /\ UNCHANGED << sample_rate, sr_multiplier, algVars, envVars, synthVars, polyVars,
                  driverVars, sysexPatch, sysexPacked, sysexData, sysexVoice >>

\* parse_voice_bank for one voice of a bank: unpack_voice_data, then
\* Dx7Patch::from_data.
SysexParseVoice(packed) ==
  /\ sysexStep = "idle"
  /\ sysexStep' = "bank"
  /\ sysexPacked' = packed
  /\ sysexData' = UnpackVoiceData(packed)
  /\ sysexParsed' = FromData(UnpackVoiceData(packed))
  /\ UNCHANGED << sample_rate, sr_multiplier, algVars, envVars, synthVars, polyVars,
                  driverVars, sysexPatch, sysexVoice >>

\* Patch::new on a packed voice.
SysexPatchNew(packed) ==
  /\ sysexStep = "idle"
  /\ sysexStep' = "unpacked"
  /\ sysexPacked' = packed
  /\ sysexVoice' = PatchUnpack(packed)
  /\ UNCHANGED << sample_rate, sr_multiplier, algVars, envVars, synthVars, polyVars,
                  driverVars, sysexPatch, sysexData, sysexParsed >>

NextSysex ==
  \/ \E p \in SYSEX_PATCHES : SysexToData(p)
  \/ SysexFromData
  \/ \E b, c \in PACKED_BYTES : SysexParseVoice(PackedVoice(b, c))
  \/ \E b, c \in PACKED_BYTES : SysexPatchNew(PackedVoice(b, c))

SpecSysex == InitSysex /\ [][NextSysex]_vars

----------------------------------------------------------------------------
(* Claims about the conversions                                            *)

\* C12: parsing the bytes of a well-formed patch restores the patch: every
\* operator field and every global field of from_data(to_data(P)) is that of P.
C12_RoundTrip == sysexStep = "parsed" => sysexParsed = sysexPatch

\* C13: whatever the bytes of the packed voice, every field of the patch made
\* from it lies in its documented range (rates, levels and fine frequency up
\* to 99, curves to 3, rate scaling to 7, detune to 14, coarse frequency and
\* algorithm to 31, feedback to 7, LFO waveform to 5, pitch modulation
\* sensitivity to 7, transpose to 48), for Patch::new as for the patches
\* parse_voice_bank returns.
C13_UnpackedFieldsInRange ==
  /\ sysexStep = "unpacked" =>
       /\ \A i \in 1..6 :
            /\ \A j \in 1..4 : sysexVoice.op[i].envelope.rate[j] <= 99
                                 /\ sysexVoice.op[i].envelope.level[j] <= 99
            /\ sysexVoice.op[i].fine <= 99
            /\ sysexVoice.op[i].keyboard_scaling.left_curve <= 3
            /\ sysexVoice.op[i].keyboard_scaling.right_curve <= 3
            /\ sysexVoice.op[i].rate_scaling <= 7
            /\ sysexVoice.op[i].detune <= 14
            /\ sysexVoice.op[i].coarse <= 31
       /\ sysexVoice.algorithm <= 31
       /\ sysexVoice.feedback <= 7
       /\ sysexVoice.modulations.waveform <= 5
       /\ sysexVoice.modulations.pitch_mod_sensitivity <= 7
       /\ sysexVoice.transpose <= 48
  /\ sysexStep = "bank" =>
       /\ \A k \in 1..6 :
            /\ \A j \in 1..4 : sysexParsed.operators[k].rates[j] <= 99
                                 /\ sysexParsed.operators[k].levels[j] <= 99
            /\ sysexParsed.operators[k].fine_freq <= 99
            /\ sysexParsed.operators[k].level_scaling_lc <= 3
            /\ sysexParsed.operators[k].level_scaling_rc <= 3
            /\ sysexParsed.operators[k].rate_scaling <= 7
            /\ sysexParsed.operators[k].detune <= 14
            /\ sysexParsed.operators[k].coarse_freq <= 31
       /\ sysexParsed.global.algorithm <= 31
       /\ sysexParsed.global.feedback <= 7
       /\ sysexParsed.global.lfo_waveform <= 5
       /\ sysexParsed.global.pitch_mod_sens <= 7
       /\ sysexParsed.global.transpose <= 48

----------------------------------------------------------------------------
(* SpecAlg: Algorithms::compile and the render loop of Voice (algorithms.rs, *)
(* voice.rs), and the calls made on a note and on the LFO of a core         *)

\* algorithms.rs OPCODES_6: FB_SRC is 64, FB_DST the source 3 (48), ADD is 4.
OPCODES_6 ==
  << <<113, 17, 17, 20, 1, 20>>,
     <<1, 17, 17, 20, 113, 20>>,
     <<113, 17, 20, 1, 17, 20>>,
     <<49, 17, 84, 1, 17, 20>>,
     <<113, 20, 1, 20, 1, 20>>,
     <<49, 84, 1, 20, 1, 20>>,
     <<113, 17, 5, 20, 1, 20>>,
     <<1, 17, 117, 20, 1, 20>>,
     <<1, 17, 5, 20, 113, 20>>,
     <<1, 5, 20, 113, 17, 20>>,
     <<113, 5, 20, 1, 17, 20>>,
     <<1, 5, 5, 20, 113, 20>>,
     <<113, 5, 5, 20, 1, 20>>,
     <<113, 5, 17, 20, 1, 20>>,
     <<1, 5, 17, 20, 113, 20>>,
     <<113, 17, 2, 37, 5, 20>>,
     <<1, 17, 2, 37, 117, 20>>,
     <<1, 17, 17, 117, 5, 20>>,
     <<113, 20, 20, 1, 17, 20>>,
     <<1, 5, 20, 113, 20, 20>>,
     <<1, 20, 20, 113, 20, 20>>,
     <<113, 20, 20, 20, 1, 20>>,
     <<113, 20, 20, 1, 20, 4>>,
     <<113, 20, 20, 20, 4, 4>>,
     <<113, 20, 20, 4, 4, 4>>,
     <<113, 5, 20, 1, 20, 4>>,
     <<1, 5, 20, 113, 20, 4>>,
     <<4, 113, 17, 20, 1, 20>>,
     <<113, 20, 1, 20, 4, 4>>,
     <<4, 113, 17, 20, 4, 4>>,
     <<113, 20, 4, 4, 4, 4>>,
     <<116, 4, 4, 4, 4, 4>> >>

\* RENDERERS_6 without its renderers for chains of two and three operators.
RENDERERS_6SingleOperator ==
  { <<1, -2, FALSE>>, <<1, -2, TRUE>>, <<1, -1, FALSE>>, <<1, -1, TRUE>>,
    <<1, 0, FALSE>>, <<1, 0, TRUE>> }

\* algorithms.rs RENDERERS_6 before its terminating entry, as
\* <<n, modulation_source, additive>>.
RENDERERS_6 ==
  { <<1, -2, FALSE>>, <<1, -2, TRUE>>, <<1, -1, FALSE>>, <<1, -1, TRUE>>,
    <<1, 0, FALSE>>, <<1, 0, TRUE>>, <<3, 2, TRUE>>, <<2, 1, TRUE>> }

\* The chaining loop of Algorithms::compile for the call that starts at
\* operator i (0-based), entered with a chain of n operators.
RECURSIVE ChainLength(_, _, _)
ChainLength(opcodes, i, n) ==
  IF i + n >= 6 THEN n
  ELSE LET from == opcodes[i + n]
           to   == FlagInbus(opcodes[i + n + 1])
       IN  IF FlagAdd(from) \/ FlagOutbus(from) # to
             THEN IF to = FlagOutbus(opcodes[i + 1]) THEN 1 ELSE n
             ELSE ChainLength(opcodes, i, n + 1)

\* The two attempts of Algorithms::compile to find a renderer for the chain
\* of n operators at i: the n it goes on with and whether a call was stored.
CompileCall(opcodes, i, n) ==
  LET Source(m) ==
        LET fb == { j \in 0..(m - 1) : (opcodes[i + j + 1] \div 64) % 2 = 1 }
        IN  IF FlagInbus(opcodes[i + 1]) = 0 THEN -1
            ELSE IF FlagInbus(opcodes[i + 1]) # 3 THEN -2
            ELSE IF fb = {} THEN -3
            ELSE CHOOSE j \in fb : \A h \in fb : h <= j
      Found(m) == <<m, Source(m), FlagAdd(opcodes[i + m])>> \in RENDERERS_6
      n2 == IF Found(n) \/ n <= 1 THEN n ELSE 1
  IN  [ n |-> n2, stored |-> Found(n2) ]

\* Algorithms::new, about to compile one algorithm; or a core of one voice on
\* which calls are made (algPc = "note").
InitAlg ==
  /\ sample_rate \in SAMPLE_RATES
  /\ sr_multiplier = SrMultiplier(sample_rate)
  /\ InitEnvIdle
  /\ InitSysexIdle
  /\ InitDriverIdle
  /\ InitPolyIdle
  /\ InitKernelIdle
  /\ fm_core = CoreNew(1)
  /\ current_patch = 0
  /\ max_length_samples = 0
  /\ pc = "idle"
  /\ call = [ midi_note |-> 0, velocity |-> 0, length_ms |-> 0 ]
  /\ max_samples = 0
  /\ samples_generated = 0
  /\ output_samples = << >>
  /\ result = "none"
  /\ renders = << >>
  /\ loads = 0
  /\ algPc \in { "compile", "note" }
  /\ algAlgorithm \in IF algPc = "compile" THEN 0..31 ELSE { 0 }
  /\ algI = 0
  /\ algCalls = [ k \in 1..6 |-> [ n |-> 0, input_index |-> 0, output_index |-> 0 ] ]
  /\ algRendered = << >>

\* One turn of the outer loop of Algorithms::compile.
AlgCompileStep ==
  /\ algPc = "compile"
  /\ algI < 6
  /\ LET opcodes == OPCODES_6[algAlgorithm + 1]
         c       == CompileCall(opcodes, algI, ChainLength(opcodes, algI, 1))
     IN  /\ algCalls' = IF c.stored
                          THEN [ algCalls EXCEPT ![algI + 1] =
                                   [ n |-> c.n,
                                     input_index |-> FlagInbus(opcodes[algI + 1]),
                                     output_index |-> FlagOutbus(opcodes[algI + c.n]) ] ]
                          ELSE algCalls
         /\ algI' = algI + c.n
  /\ UNCHANGED << sample_rate, sr_multiplier, envVars, synthVars, polyVars, driverVars,
                  sysexVars, kernelVars, algPc, algAlgorithm, algRendered >>

\* Algorithms::compile returns; Voice::render_internal starts its loop.
AlgCompileDone ==
  /\ algPc = "compile"
  /\ algI >= 6
  /\ algPc' = "render"
  /\ algI' = 0
  /\ UNCHANGED << sample_rate, sr_multiplier, envVars, synthVars, polyVars, driverVars,
                  sysexVars, kernelVars, algAlgorithm, algCalls, algRendered >>

\* One turn of the operator loop of Voice::render_internal: the call at i
\* renders the operators i .. i + n - 1; taking the slice panics when it ends
\* after the last operator, and a call with n = 0 leaves i where it is.
AlgRenderStep ==
  /\ algPc = "render"
  /\ algI < 6
  /\ IF algI + algCalls[algI + 1].n > 6
       THEN algPc' = "panic" /\ UNCHANGED << algI, algRendered >>
       ELSE /\ algRendered' = algRendered \o
                               [ j \in 1..algCalls[algI + 1].n |-> algI + j - 1 ]
            /\ algI' = algI + algCalls[algI + 1].n
            /\ algPc' = algPc
  /\ UNCHANGED << sample_rate, sr_multiplier, envVars, synthVars, polyVars, driverVars,
                  sysexVars, kernelVars, algAlgorithm, algCalls >>

\* The operator loop of Voice::render_internal ends.
AlgRenderDone ==
  /\ algPc = "render"
  /\ algI >= 6
  /\ algPc' = "done"
  /\ UNCHANGED << sample_rate, sr_multiplier, envVars, synthVars, polyVars, driverVars,
                  sysexVars, kernelVars, algAlgorithm, algI, algCalls, algRendered >>

\* Dx7Note::set_algorithm on the note of the voice.
AlgSetAlgorithmCall(algorithm) ==
  /\ algPc = "note"
  /\ fm_core' = [ fm_core EXCEPT
                    !.voices[1].note = NoteSetAlgorithm(@, algorithm) ]
  /\ UNCHANGED << sample_rate, sr_multiplier, algVars, envVars, polyVars, driverVars,
                  sysexVars, current_patch, max_length_samples, pc, call,
                  max_samples, samples_generated, output_samples, result, renders,
                  loads >>

\* FmCore::load_patch with the image of a patch whose algorithm byte is b.
AlgLoadPatchCall(p, b) ==
  /\ algPc = "note"
  /\ loads < MaxCoreLoads
  /\ loads' = loads + 1
  /\ current_patch' = p
  /\ fm_core' = CoreLoadPatch(fm_core, [ ToData(PATCHES[p]) EXCEPT ![135] = b ],
                              sr_multiplier)
  /\ UNCHANGED << sample_rate, sr_multiplier, algVars, envVars, polyVars, driverVars,
                  sysexVars, max_length_samples, pc, call, max_samples,
                  samples_generated, output_samples, result, renders >>

\* FmCore::set_lfo_params
AlgSetLfoParamsCall(params) ==
  /\ algPc = "note"
  /\ fm_core' = [ fm_core EXCEPT !.lfo = LfoReset(@, params) ]
  /\ UNCHANGED << sample_rate, sr_multiplier, algVars, envVars, polyVars, driverVars,
                  sysexVars, current_patch, max_length_samples, pc, call,
                  max_samples, samples_generated, output_samples, result, renders,
                  loads >>

\* FmCore::note_on
AlgNoteOnCall(midi_note) ==
  /\ algPc = "note"
  /\ coreNotes < MaxCoreNotes
  /\ coreNotes' = coreNotes + 1
  /\ fm_core' = CoreNoteOn(fm_core, midi_note, CORE_VELOCITY, 0, sr_multiplier)
  /\ UNCHANGED << sample_rate, sr_multiplier, algVars, envVars, driverVars, sysexVars,
                  coreBlocks, coreLast, coreTriggered, current_patch,
                  max_length_samples, pc, call, max_samples, samples_generated,
                  output_samples, result, renders, loads >>

NextAlg ==
  \/ AlgCompileStep
  \/ AlgCompileDone
  \/ AlgRenderStep
  \/ AlgRenderDone
  \/ \E algorithm \in { 0, 5, 32, 50 } : AlgSetAlgorithmCall(algorithm)
  \/ \E p \in { 1, 4 }, b \in { 0, 31, 32, 127 } : AlgLoadPatchCall(p, b)
  \/ \E sync \in { 0, 1 } : AlgSetLfoParamsCall(<<35, 0, 0, 0, sync, 0>>)
  \/ \E midi_note \in CORE_NOTES : AlgNoteOnCall(midi_note)

SpecAlg == InitAlg /\ [][NextAlg]_vars

----------------------------------------------------------------------------
(* SpecKernel: one call of FmOpKernel::compute or FmOpKernel::compute_fb,   *)
(* sample by sample.  The additions of the kernels are written with + and   *)
(* +=: a build with overflow checks panics when one of them leaves the i32  *)
(* range, a build without them wraps.                                       *)

\* a + b leaves the range of i32.
AddOverflows(a, b) ==
  \/ (a > 0 /\ b > 0 /\ a > I32_MAX - b)
  \/ (a < 0 /\ b < 0 /\ a < I32_MIN - b)

KERNEL_PHASES == { 0, 1073741824, I32_MAX - 1000, I32_MIN, -1 }

KERNEL_FREQS == { 1000, 1048576, 33554432 }

KERNEL_INPUTS == { 0, 4194304, -4194304 }

KERNEL_GAIN == 16777216

\* A call of a kernel with add = false and gain1 = gain2, as Dx7Note::process
\* makes it.
InitKernel ==
  /\ sample_rate = 44100
  /\ sr_multiplier = SrMultiplier(sample_rate)
  /\ InitEnvIdle
  /\ InitSysexIdle
  /\ InitAlgIdle
  /\ InitPolyIdle
  /\ InitDriverIdle
  /\ InitSynthIdle
  /\ kernelPc = "loop"
  /\ kernelChecks \in BOOLEAN
  /\ \E fn \in { "compute", "compute_fb" }, phase0 \in KERNEL_PHASES,
        freq \in KERNEL_FREQS, m \in KERNEL_INPUTS :
       /\ kernelArgs = [ fn |-> fn, input |-> Block([ i \in 1..N |-> m ]),
                         phase0 |-> phase0, freq |-> freq, gain1 |-> KERNEL_GAIN,
                         gain2 |-> KERNEL_GAIN, fb_shift |-> 0 ]
       /\ kernelLoop = [ i |-> 0, phase |-> phase0, y0 |-> m, y |-> m, out |-> << >> ]

\* One turn of the loop of FmOpKernel::compute: phase + input[i], then
\* phase += freq.
KernelComputeStep ==
  /\ kernelPc = "loop"
  /\ kernelArgs.fn = "compute"
  /\ kernelLoop.i < N
  /\ LET i     == kernelLoop.i
         phase == kernelLoop.phase
         input == kernelArgs.input[i + 1]
         dgain == KernelDgain(kernelArgs.gain1, kernelArgs.gain2)
         y1    == MulShr(SinLookup(WrapAdd(phase, input)),
                         kernelArgs.gain1 + (i + 1) * dgain, 12)
     IN  IF kernelChecks /\ (AddOverflows(phase, input)
                               \/ AddOverflows(phase, kernelArgs.freq))
           THEN kernelPc' = "trap" /\ UNCHANGED kernelLoop
           ELSE /\ kernelLoop' = [ kernelLoop EXCEPT
                                     !.i = i + 1,
                                     !.phase = WrapAdd(phase, kernelArgs.freq),
                                     !.out = Append(@, y1) ]
                /\ kernelPc' = kernelPc
  /\ UNCHANGED << sample_rate, sr_multiplier, envVars, synthVars, polyVars, driverVars,
                  sysexVars, algPc, algAlgorithm, algI, algCalls, algRendered,
                  kernelChecks, kernelArgs >>

\* One turn of the loop of FmOpKernel::compute_fb: y0 + y, phase + scaled_fb,
\* then phase += freq.
KernelComputeFbStep ==
  /\ kernelPc = "loop"
  /\ kernelArgs.fn = "compute_fb"
  /\ kernelLoop.i < N
  /\ LET i         == kernelLoop.i
         phase     == kernelLoop.phase
         scaled_fb == Shr(kernelLoop.y0 + kernelLoop.y,
                          Min(kernelArgs.fb_shift + 1, 31))
         st        == KernelFbStep(kernelLoop, 1, phase, kernelArgs.freq,
                                   kernelArgs.gain1 + i * KernelDgain(kernelArgs.gain1,
                                                                      kernelArgs.gain2),
                                   KernelDgain(kernelArgs.gain1, kernelArgs.gain2),
                                   kernelArgs.fb_shift)
     IN  IF kernelChecks /\ (AddOverflows(kernelLoop.y0, kernelLoop.y)
                               \/ AddOverflows(phase, scaled_fb)
                               \/ AddOverflows(phase, kernelArgs.freq))
           THEN kernelPc' = "trap" /\ UNCHANGED kernelLoop
           ELSE /\ kernelLoop' = [ i |-> i + 1,
                                   phase |-> WrapAdd(phase, kernelArgs.freq),
                                   y0 |-> st.y0, y |-> st.y, out |-> st.out ]
                /\ kernelPc' = kernelPc
  /\ UNCHANGED << sample_rate, sr_multiplier, envVars, synthVars, polyVars, driverVars,
                  sysexVars, algPc, algAlgorithm, algI, algCalls, algRendered,
                  kernelChecks, kernelArgs >>

\* The loop has written N samples and the kernel returns.
KernelReturn ==
  /\ kernelPc = "loop"
  /\ kernelLoop.i = N
  /\ kernelPc' = "done"
  /\ UNCHANGED << sample_rate, sr_multiplier, envVars, synthVars, polyVars, driverVars,
                  sysexVars, algPc, algAlgorithm, algI, algCalls, algRendered,
                  kernelChecks, kernelArgs, kernelLoop >>

NextKernel ==
  \/ KernelComputeStep
  \/ KernelComputeFbStep
  \/ KernelReturn

SpecKernel == InitKernel /\ [][NextKernel]_vars

----------------------------------------------------------------------------
(* Claims about the algorithm tables, the note and the LFO                  *)

\* C24: the render loop advances from operator 0 by the chain length of the
\* compiled call, meets only calls with n >= 1 that end at or before the
\* last operator, and has rendered each operator once, in order, when it
\* ends.
C24_RenderWalkCoversOperators ==
  /\ (algPc = "render" /\ algI < 6) =>
       /\ algCalls[algI + 1].n >= 1
       /\ algI + algCalls[algI + 1].n <= 6
  /\ algPc # "panic"
  /\ algPc = "done" => (algI = 6 /\ algRendered = <<0, 1, 2, 3, 4, 5>>)

\* The render loop has ended for an algorithm compiled into a chain of three
\* operators.
C24_Witness ==
  /\ algPc = "done"
  /\ algCalls[1].n = 3
  /\ algRendered = <<0, 1, 2, 3, 4, 5>>

\* C23: for the algorithm at hand, ALGORITHMS and OPCODES_6 give every
\* operator the same input bus, the same output bus, the same ADD flag, and
\* the same feedback role (it reads the feedback taps, it is the feedback
\* source).
C23_TablesAgree ==
  algPc \in { "compile", "render", "done" } =>
    \A k \in 1..6 :
      LET flags  == ALGORITHMS[algAlgorithm + 1][k]
          opcode == OPCODES_6[algAlgorithm + 1][k]
      IN  /\ FlagInbus(flags) = (IF FlagInbus(opcode) = 3 THEN 0 ELSE FlagInbus(opcode))
          /\ FlagOutbus(flags) = FlagOutbus(opcode)
          /\ FlagAdd(flags) = FlagAdd(opcode)
          /\ ((flags \div 64) % 2 = 1) = (FlagInbus(opcode) = 3)
          /\ ((flags \div 128) % 2 = 1) = ((opcode \div 64) % 2 = 1)

\* C29: in the algorithm at hand exactly one operator carries the
\* feedback-source flag, in ALGORITHMS and in OPCODES_6, and an operator
\* whose output Dx7Note::process stores in fb_buf is that operator.
C29_OneFeedbackSource ==
  algPc \in { "compile", "render", "done" } =>
    LET sources == { k \in 1..6 : (ALGORITHMS[algAlgorithm + 1][k] \div 128) % 2 = 1 }
        writers == { k \in 1..6 : FlagFeedback(ALGORITHMS[algAlgorithm + 1][k]) }
    IN  /\ Cardinality(sources) = 1
        /\ Cardinality({ k \in 1..6 : (OPCODES_6[algAlgorithm + 1][k] \div 64) % 2 = 1 }) = 1
        /\ writers \subseteq sources

\* C25: the algorithm of the note is in 1..32 after every call of
\* set_algorithm and of apply_patch.
C25_AlgorithmInRange ==
  algPc = "note" => fm_core.voices[1].note.algorithm \in 1..32

\* C26: every FmCore::note_on leaves the delay state of the LFO at zero and,
\* when the LFO is synced, its phase at 2^31 - 1 (the u32 (1 << 31) - 1).
C26_NoteOnResetsLfo ==
  [][ (algPc = "note" /\ coreNotes' = coreNotes + 1) =>
        /\ fm_core'.lfo.delaystate = 0
        /\ fm_core.lfo.sync => fm_core'.lfo.phase = I32_MAX
    ]_vars

\* C30: a note whose patch has feedback f in 1..7 has the feedback shift
\* 8 - f, and one whose patch has feedback 0 has the shift 16, with which no
\* operator runs the feedback kernel.
C30_FeedbackShift ==
  (algPc = "note" /\ current_patch # 0) =>
    LET feedback == PATCHES[current_patch].global.feedback
    IN  fm_core.voices[1].note.fb_shift = IF feedback = 0 THEN 16 ELSE 8 - feedback

----------------------------------------------------------------------------
(* Claims about the additions of the kernels                                *)

\* C27: no addition to the phase of an operator in a kernel (phase + input,
\* phase + scaled_fb, phase += freq) ends the call with an overflow panic,
\* whatever the phase, the frequency and the modulation are and whatever the
\* build.
C27_NoOverflowTrap == kernelPc # "trap"

============================================================================
